---------------------------- MODULE Spec2Model ----------------------------
(* Operational reporting scripts: the retry-with-backoff helper of          *)
(* Find-EKS.py and LB-Targets.py, the thread-pool fan-out of Find-EKS.py,   *)
(* Idle-RDS.py and LB-Targets.py, and the sequential per-profile loops of   *)
(* RDS-Storage.py, EC2-Tags.py, IAM-Roles.py and EC2-EBS-Snapshots.py.      *)
EXTENDS Integers, Sequences, FiniteSets, TLC

\* The elements of a sequence.
Range(q) == {q[i] : i \in 1..Len(q)}

(***************************************************************************)
(* Part 1: backoff_retry                                                   *)
(***************************************************************************)

\* Largest retry count and callable behaviours explored.
MaxRetries == 3

\* initial_delay defaults of the two copies.
EKSInitialDelay == 2
LBInitialDelay == 10

\* retries defaults of the two copies.
EKSRetries == 5
LBRetries == 10

InitialDelays == {EKSInitialDelay, LBInitialDelay}

\* The two scripts that carry a copy of backoff_retry.
RetryCopies == {"FindEKS", "LBTargets"}

\* What one invocation of the wrapped callable does: return a value, raise
\* ClientError with code 'Throttling', raise ClientError with another code,
\* or raise an exception that is not a ClientError.
CallOutcomes == {"ok", "Throttling", "ClientOther", "OtherExc"}

\* A callable is its outcome at each successive invocation.
Callables == [1..(MaxRetries + 1) -> CallOutcomes]

VARIABLES
    br_copy,        \* which script's backoff_retry runs
    func,           \* the wrapped callable
    retries,        \* parameter retries
    initial_delay,  \* parameter initial_delay
    br_pc,          \* position in backoff_retry
    attempt,        \* loop variable of "for attempt in range(retries)"
    delay,          \* local variable delay
    invocations,    \* number of times func was invoked
    sleeps,         \* durations passed to time.sleep, in order
    br_result       \* how backoff_retry ended

varsBR == <<br_copy, func, retries, initial_delay, br_pc, attempt, delay,
            invocations, sleeps, br_result>>

VARIABLES
    fan_script,     \* which fan-out script runs
    nprofiles,      \* number of configured profiles (available_profiles)
    remote,         \* what the remote calls of each (profile, region) do
    tstate,         \* per task: position of its future / worker
    collected,      \* futures already yielded by as_completed and handled
    coord_pc,       \* position of the coordinating (main) thread
    results,        \* the shared result collection
    writers,        \* threads that have written the shared collection
    logs,           \* error lines printed so far
    delays,         \* number of add_random_delay() calls (LB-Targets)
    report,         \* rows handed to the report writer
    written,        \* whether the output file was written
    error_after_rows, \* an error line was printed when rows were already collected
    yield_first,    \* futures already done when as_completed was called
    finished_q,     \* futures that became done after that call, oldest first
    first_done      \* the future that became done first, 0 when none has

varsFan == <<fan_script, nprofiles, remote, tstate, collected, coord_pc, results,
             writers, logs, delays, report, written, error_after_rows,
             yield_first, finished_q, first_done>>

VARIABLES
    seq_script,     \* which sequential multi-profile script runs
    seq_remote,     \* what the remote calls of each (profile, region) do
    seq_next,       \* number of the next (profile, region) pair of the loops
    seq_rows,       \* rows gathered for the report so far
    seq_logs,       \* pairs for which an error line was printed
    seq_pc          \* position of main

varsSeq == <<seq_script, seq_remote, seq_next, seq_rows, seq_logs, seq_pc>>

VARIABLES
    cc_copy,        \* the script whose tasks call backoff_retry concurrently
    cc              \* per concurrent invocation: its parameters and locals

varsConc == <<cc_copy, cc>>

VARIABLES
    sh_script,      \* which script creates one worksheet per partition
    sh_profiles,    \* the profile names, in the order of available_profiles
    sh_next,        \* number of the next partition of the loops
    worksheet_names, \* the set worksheet_names
    sh_added,       \* the names passed to workbook.add_worksheet, in order
    sh_sheets,      \* the names of the worksheets the workbook holds
    sh_pc           \* position of main

varsSheet == <<sh_script, sh_profiles, sh_next, worksheet_names, sh_added,
               sh_sheets, sh_pc>>

VARIABLES
    dc_script,      \* which script writes rows with one column per tag key
    dc_rows,        \* per input row (API or instance): the tag keys it has
    dc_header,      \* the header row written
    dc_lines,       \* the data rows written, each a sequence of cells
    dc_pc           \* position of the writer

varsCols == <<dc_script, dc_rows, dc_header, dc_lines, dc_pc>>

VARIABLES
    rm_resp,        \* per metric of METRIC_THRESHOLDS: what CloudWatch answers
    rm_role,        \* what get_cluster_role returned for the instance
    rm_i,           \* number of the metric the loop of get_rds_metrics is at
    rm_idle,        \* the local variable idle of get_rds_metrics
    rm_logs,        \* numbers of the metrics whose retrieval error was printed
    idle_instances, \* the list idle_instances of get_idle_rds_instances
    rm_pc           \* position of get_idle_rds_instances for the instance

varsIdle == <<rm_resp, rm_role, rm_i, rm_idle, rm_logs, idle_instances, rm_pc>>

VARIABLES
    iam_roles,      \* per listed role: what its access-report job will answer
    iam_i,          \* number of the role the loop is at
    iam_job,        \* JobStatus of the current role's job
    iam_out,        \* the lines printed per role so far
    iam_pc          \* position of get_iam_roles_last_accessed

varsIam == <<iam_roles, iam_i, iam_job, iam_out, iam_pc>>

\* The variables of the single-account checks.
varsAux == <<varsIdle, varsIam>>

\* The variables of the report writers and of the single-account checks.
varsOut == <<varsSheet, varsCols, varsAux>>

\* "import time" is present in LB-Targets.py and absent from Find-EKS.py, so
\* the name time is unbound when Find-EKS.py reaches time.sleep(delay).
TimeImported(copy) == copy = "LBTargets"

\* A loop that runs once more than range(retries) does.
LoopHasNextInclusive(a, r) == a <= r

\* range(retries): the loop body runs while attempt < retries.
LoopHasNext(a, r) == a < r

\* A retry loop without backoff: the delay stays what it was.
NextDelayConstant(d) == d

\* delay *= 2
NextDelay(d) == d * 2

\* An except clause that retries no error.
IsThrottlingNever(o) == FALSE

\* An except clause that retries every ClientError, whatever its code.
IsThrottlingAnyCode(o) == o \in {"Throttling", "ClientOther"}

\* The except clause: is the error a ClientError with code 'Throttling'?
IsThrottling(o) == o = "Throttling"

\* backoff_retry(func, retries=r, initial_delay=d) of script copy, from loop
\* iteration a on with local delay d and the sleeps sl made so far: how it
\* ends, how often func was invoked and which sleeps were made.
RECURSIVE BackoffFrom(_, _, _, _, _, _)
BackoffFrom(copy, f, r, a, d, sl) ==
    IF ~LoopHasNext(a, r)
      THEN [result |-> "MaxRetries", invocations |-> a, sleeps |-> sl]
      ELSE LET o == f[a + 1] IN
           IF o = "ok"
             THEN [result |-> "value", invocations |-> a + 1, sleeps |-> sl]
             ELSE IF IsThrottling(o)
               THEN IF TimeImported(copy)
                      THEN BackoffFrom(copy, f, r, a + 1, NextDelay(d),
                                       Append(sl, d))
                      ELSE [result |-> "NameError", invocations |-> a + 1,
                            sleeps |-> sl]
               ELSE [result |-> o, invocations |-> a + 1, sleeps |-> sl]

backoff_retry(copy, f, r, d) == BackoffFrom(copy, f, r, 0, d, <<>>)

\* The defaults a call site gets when it passes neither retries nor
\* initial_delay, as all call sites do.
DefaultRetries(copy) == IF copy = "FindEKS" THEN EKSRetries ELSE LBRetries
DefaultDelay(copy) == IF copy = "FindEKS" THEN EKSInitialDelay ELSE LBInitialDelay

\* A remote call that answers every invocation with a rate-limit error.
AlwaysThrottled(r) == [k \in 1..(r + 1) |-> "Throttling"]

InitBR ==
    /\ br_copy \in RetryCopies
    /\ func \in Callables
    /\ retries \in 0..MaxRetries
    /\ initial_delay \in InitialDelays
    /\ br_pc = "loop"
    /\ attempt = 0
    /\ delay = initial_delay
    /\ invocations = 0
    /\ sleeps = <<>>
    /\ br_result = "none"
    \* the fan-out is not running
    /\ fan_script = "none"
    /\ nprofiles = 0
    /\ remote = <<>>
    /\ tstate = <<>>
    /\ collected = {}
    /\ coord_pc = "idle"
    /\ results = <<>>
    /\ writers = {}
    /\ logs = {}
    /\ delays = 0
    /\ report = <<>>
    /\ written = FALSE
    /\ error_after_rows = FALSE
    /\ yield_first = {}
    /\ finished_q = <<>>
    /\ first_done = 0
    \* no sequential script is running
    /\ seq_script = "none"
    /\ seq_remote = <<>>
    /\ seq_next = 0
    /\ seq_rows = <<>>
    /\ seq_logs = {}
    /\ seq_pc = "idle"
    \* no concurrent invocations of backoff_retry
    /\ cc_copy = "none"
    /\ cc = <<>>
    \* no worksheets are being created
    /\ sh_script = "none"
    /\ sh_profiles = <<>>
    /\ sh_next = 0
    /\ worksheet_names = {}
    /\ sh_added = <<>>
    /\ sh_sheets = <<>>
    /\ sh_pc = "idle"
    \* no tag columns are being written
    /\ dc_script = "none"
    /\ dc_rows = <<>>
    /\ dc_header = <<>>
    /\ dc_lines = <<>>
    /\ dc_pc = "idle"
    \* no instance is being classified
    /\ rm_resp = <<>>
    /\ rm_role = "none"
    /\ rm_i = 0
    /\ rm_idle = FALSE
    /\ rm_logs = {}
    /\ idle_instances = <<>>
    /\ rm_pc = "idle"
    \* no access report is being polled
    /\ iam_roles = <<>>
    /\ iam_i = 0
    /\ iam_job = "none"
    /\ iam_out = <<>>
    /\ iam_pc = "idle"

\* try: return func(*args, **kwargs), with the except clause's dispatch.
BRInvoke ==
    /\ br_pc = "loop"
    /\ LoopHasNext(attempt, retries)
    /\ invocations' = invocations + 1
    /\ LET o == func[invocations + 1] IN
         IF o = "ok"
           THEN br_pc' = "done" /\ br_result' = "value"
           ELSE IF IsThrottling(o)
             THEN br_pc' = "sleep" /\ br_result' = br_result
             ELSE br_pc' = "done" /\ br_result' = o
    /\ UNCHANGED <<br_copy, func, retries, initial_delay, attempt, delay, sleeps>>
    /\ UNCHANGED <<varsFan, varsSeq, varsConc, varsOut>>

\* print(...); time.sleep(delay); delay *= 2 and the next loop iteration.
BRSleep ==
    /\ br_pc = "sleep"
    /\ IF TimeImported(br_copy)
         THEN /\ sleeps' = Append(sleeps, delay)
              /\ delay' = NextDelay(delay)
              /\ attempt' = attempt + 1
              /\ br_pc' = "loop"
              /\ br_result' = br_result
         ELSE /\ br_pc' = "done"
              /\ br_result' = "NameError"
              /\ UNCHANGED <<sleeps, delay, attempt>>
    /\ UNCHANGED <<br_copy, func, retries, initial_delay, invocations>>
    /\ UNCHANGED <<varsFan, varsSeq, varsConc, varsOut>>

\* raise Exception("Max retries reached ...") after the loop.
BRExhausted ==
    /\ br_pc = "loop"
    /\ ~LoopHasNext(attempt, retries)
    /\ br_pc' = "done"
    /\ br_result' = "MaxRetries"
    /\ UNCHANGED <<br_copy, func, retries, initial_delay, attempt, delay,
                   invocations, sleeps>>
    /\ UNCHANGED <<varsFan, varsSeq, varsConc, varsOut>>

NextBR == BRInvoke \/ BRSleep \/ BRExhausted

(***************************************************************************)
(* Part 2: the thread-pool fan-out of Find-EKS.py, Idle-RDS.py and         *)
(* LB-Targets.py                                                           *)
(***************************************************************************)

\* Number of configured profiles (session.available_profiles) in the runs
\* that explore failing remote calls.
NumProfiles == 2

\* Number of configured profiles in those runs of Idle-RDS.py, which has
\* one task per (profile, region) pair.
NumRDSProfiles == 1

\* Largest number of (profile, region) pairs whose remote calls fail.
MaxFaults == 2

\* Largest number of profiles in the runs that explore the pool with more
\* work items than worker threads (every remote call succeeds there).
MaxPoolProfiles == 6

\* Largest number of (profile, region) pairs in the runs that explore
\* termination.
MaxLiveTasks == 4

\* ThreadPoolExecutor(max_workers=...) of each script.
EKSMaxWorkers == 5
RDSMaxWorkers == 10
LBMaxWorkers == 3

FanScripts == {"FindEKS", "IdleRDS", "LBTargets"}

Profiles == 1..nprofiles

\* REGIONS of Find-EKS.py and Idle-RDS.py, region of LB-Targets.py.
RegionsOf(s) ==
    CASE s = "FindEKS"   -> <<"us-east-1", "us-west-1">>
      [] s = "IdleRDS"   -> <<"us-east-1", "eu-west-1">>
      [] s = "LBTargets" -> <<"us-east-1">>

MaxWorkers(s) ==
    CASE s = "FindEKS"   -> EKSMaxWorkers
      [] s = "IdleRDS"   -> RDSMaxWorkers
      [] s = "LBTargets" -> LBMaxWorkers

\* The (profile, region) pairs a script makes remote calls for.
Pairs(s) == {<<p, RegionsOf(s)[i]>> : p \in Profiles, i \in 1..Len(RegionsOf(s))}

\* What the remote calls for one pair do: succeed, or raise ClientError
\* (an error response of the service), NoCredentialsError,
\* EndpointConnectionError or another exception. get_idle_rds_instances has
\* a single handler, except Exception, around its fetch, so there the
\* failures are a connectivity error or any other one; "IdentityError" is
\* its sts.get_caller_identity() call raising before the try block.
ErrorKinds == {"ClientError", "NoCredentials", "Connectivity", "Unexpected"}

\* In Find-EKS.py and LB-Targets.py the calls go through backoff_retry, and
\* "Throttled" is a pair whose wrapped call is rate-limited every time.
\* In LB-Targets.py the place of a ClientError matters: "ClientError" is
\* raised by the describe call of one resource's check (lines 73, 104,
\* 110), inside the inner try; "ClientErrorListing" is raised by the calls
\* that list the target groups or load balancers (lines 61-67, 97-98),
\* outside of it.
PairOutcomes(s) ==
    CASE s = "IdleRDS"   -> {"ok", "Connectivity", "Unexpected", "IdentityError"}
      [] s = "FindEKS"   -> {"ok", "Throttled"} \cup ErrorKinds
      [] s = "LBTargets" -> {"ok", "Throttled", "ClientErrorListing"} \cup ErrorKinds

\* The exception that reaches the task function of script s for a pair with
\* outcome o: for a rate-limited call, whatever backoff_retry ends with.
ErrorOf(s, o) ==
    IF o = "Throttled"
      THEN backoff_retry(s, AlwaysThrottled(DefaultRetries(s)),
                         DefaultRetries(s), DefaultDelay(s)).result
      ELSE o

\* The submitted tasks in submission order: one per profile in Find-EKS.py
\* and LB-Targets.py, one per (profile, region) in Idle-RDS.py.
TaskList(s) ==
    IF s = "IdleRDS"
      THEN [i \in 1..(nprofiles * Len(RegionsOf(s))) |->
              [profile |-> ((i - 1) \div Len(RegionsOf(s))) + 1,
               region  |-> RegionsOf(s)[((i - 1) % Len(RegionsOf(s))) + 1]]]
      ELSE [i \in 1..nprofiles |-> [profile |-> i, region |-> "*"]]

TaskIds == 1..Len(TaskList(fan_script))

\* The row a successful fetch for the pair yields.
Row(p, r) == [profile |-> p, region |-> r]

\* An error line: the task it is about, who printed it, and whether its
\* text names the profile and the region.
LogLine(t, by, namesProfile, namesRegion) ==
    [task |-> t, by |-> by, profile |-> namesProfile, region |-> namesRegion]

\* except (ClientError, EndpointConnectionError) of collect_karpenter_data.
EKSCatches(o) == o \in {"ClientError", "Throttling", "ClientOther", "Connectivity"}

\* collect_karpenter_data(profile) from region number i on, acc being
\* account_results: the try block encloses the whole region loop.
RECURSIVE EKSRegionLoop(_, _, _, _)
EKSRegionLoop(t, p, i, acc) ==
    LET regs == RegionsOf("FindEKS") IN
    IF i > Len(regs)
      THEN [rows |-> acc, raised |-> FALSE, log |-> {}]
      ELSE LET o == ErrorOf("FindEKS", remote[<<p, regs[i]>>]) IN
           IF o = "ok"
             THEN EKSRegionLoop(t, p, i + 1, Append(acc, Row(p, regs[i])))
             ELSE IF EKSCatches(o)
               THEN [rows |-> acc, raised |-> FALSE,
                     log |-> {LogLine(t, "task", TRUE, FALSE)}]
               ELSE [rows |-> <<>>, raised |-> TRUE, log |-> {}]

collect_karpenter_data(t) ==
    EKSRegionLoop(t, TaskList("FindEKS")[t].profile, 1, <<>>)

\* get_idle_rds_instances(profile, region, idle_days).
get_idle_rds_instances(t) ==
    LET p == TaskList("IdleRDS")[t].profile
        r == TaskList("IdleRDS")[t].region
        o == remote[<<p, r>>]
    IN  IF o = "IdentityError"
          THEN [rows |-> <<>>, raised |-> TRUE, log |-> {}]
          ELSE IF o = "ok"
            THEN [rows |-> <<Row(p, r)>>, raised |-> FALSE, log |-> {}]
            ELSE [rows |-> <<>>, raised |-> FALSE,
                  log |-> {LogLine(t, "task", TRUE, TRUE)}]

\* The row LB-Targets.py appends for a resource whose check raised a
\* ClientError: its Status is 'Error: ...'.
ErrorRow(p, r) == [profile |-> p, region |-> r, status |-> "Error"]

\* except ClientError around the check of one target group or load
\* balancer in LB-Targets.py.
LBInnerCatches(o) == o \in {"ClientError", "Throttling", "ClientOther"}

\* find_unhealthy_targets_and_empty_target_groups(profile). A ClientError
\* of a resource's check is caught by the inner handler, which appends an
\* error row, and the function goes on to store session_data; a
\* ClientError of a listing call and any other exception (the
\* retries-exhausted Exception of backoff_retry included) reach the outer
\* handlers and are printed, and nothing is stored. The function itself
\* never raises.
find_unhealthy_targets(t) ==
    LET p == TaskList("LBTargets")[t].profile
        r == RegionsOf("LBTargets")[1]
        o == ErrorOf("LBTargets", remote[<<p, r>>])
    IN  IF o = "ok"
          THEN [rows |-> <<Row(p, r)>>, raised |-> FALSE, log |-> {}]
          ELSE IF LBInnerCatches(o)
            THEN [rows |-> <<ErrorRow(p, r)>>, raised |-> FALSE, log |-> {}]
            ELSE [rows |-> <<>>, raised |-> FALSE,
                  log |-> {LogLine(t, "task", TRUE, o = "Connectivity")}]

\* A script whose task function writes the shared collection itself.
TaskStoresItselfAlways(s) == TRUE

\* Whether the task function writes the shared collection itself
\* (results[account_name] = session_data in LB-Targets.py) or returns its
\* rows to the caller (Find-EKS.py, Idle-RDS.py).
TaskStoresItself(s) == s = "LBTargets"

\* What running task t does.
TaskRun(t) ==
    CASE fan_script = "FindEKS"   -> collect_karpenter_data(t)
      [] fan_script = "IdleRDS"   -> get_idle_rds_instances(t)
      [] fan_script = "LBTargets" -> find_unhealthy_targets(t)

\* Thread identities: the coordinating thread and the worker thread that
\* runs task t.
MainThread == [kind |-> "main", task |-> 0]
WorkerThread(t) == [kind |-> "worker", task |-> t]

\* Tasks occupying a worker thread.
Running == {t \in TaskIds : tstate[t] \in {"running", "storing", "stored"}}

\* Futures that are done (returned or raised).
IsDone(t) == tstate[t] \in {"returned", "raised"}

\* A pool that starts a thread for every work item.
WorkerFreeAlways(n) == TRUE

\* A worker thread is free.
WorkerFree(n) == n < MaxWorkers(fan_script)

\* The for loop over as_completed ends after the first future.
LoopExhaustedEarly(c) == c # {}

\* The for loop over as_completed ends when every future was yielded.
LoopExhausted(c) == c = TaskIds

\* A future that becomes done after as_completed was called is appended to
\* the iterator's list of finished futures.
Notify(q, t) ==
    IF coord_pc \in {"submit", "as_completed"} THEN q ELSE Append(q, t)

\* The future that became done first.
FirstDone(fd, t) == IF fd = 0 THEN t ELSE fd

\* An iterator that yields the futures in any order.
YieldsAnyDone(t) == t \notin collected

\* The future as_completed yields next: one of those that were done when it
\* was called, in no particular order, and after them the others in the
\* order in which they became done.
Yields(t) ==
    /\ t \notin collected
    /\ IF yield_first \ collected # {}
         THEN t \in yield_first
         ELSE finished_q # <<>> /\ t = Head(finished_q)

\* The iterator's list after t was yielded.
AfterYield(q, t) == IF t \in yield_first THEN q ELSE Tail(q)

\* Number of failing pairs of an input.
Faults(s, f) == Cardinality({pr \in Pairs(s) : f[pr] # "ok"})

InitFan ==
    /\ fan_script \in FanScripts
    /\ nprofiles = IF fan_script = "IdleRDS" THEN NumRDSProfiles
                                              ELSE NumProfiles
    /\ remote \in {f \in [Pairs(fan_script) -> PairOutcomes(fan_script)] :
                     Faults(fan_script, f) <= MaxFaults}
    /\ tstate = [t \in TaskIds |-> "unsubmitted"]
    /\ collected = {}
    /\ coord_pc = "submit"
    /\ results = <<>>
    /\ writers = {}
    /\ logs = {}
    /\ delays = 0
    /\ report = <<>>
    /\ written = FALSE
    /\ error_after_rows = FALSE
    /\ yield_first = {}
    /\ finished_q = <<>>
    /\ first_done = 0
    \* backoff_retry is not running
    /\ br_copy = "none"
    /\ func = <<>>
    /\ retries = 0
    /\ initial_delay = 0
    /\ br_pc = "idle"
    /\ attempt = 0
    /\ delay = 0
    /\ invocations = 0
    /\ sleeps = <<>>
    /\ br_result = "none"
    \* no sequential script is running
    /\ seq_script = "none"
    /\ seq_remote = <<>>
    /\ seq_next = 0
    /\ seq_rows = <<>>
    /\ seq_logs = {}
    /\ seq_pc = "idle"
    \* no concurrent invocations of backoff_retry
    /\ cc_copy = "none"
    /\ cc = <<>>
    \* no worksheets are being created
    /\ sh_script = "none"
    /\ sh_profiles = <<>>
    /\ sh_next = 0
    /\ worksheet_names = {}
    /\ sh_added = <<>>
    /\ sh_sheets = <<>>
    /\ sh_pc = "idle"
    \* no tag columns are being written
    /\ dc_script = "none"
    /\ dc_rows = <<>>
    /\ dc_header = <<>>
    /\ dc_lines = <<>>
    /\ dc_pc = "idle"
    \* no instance is being classified
    /\ rm_resp = <<>>
    /\ rm_role = "none"
    /\ rm_i = 0
    /\ rm_idle = FALSE
    /\ rm_logs = {}
    /\ idle_instances = <<>>
    /\ rm_pc = "idle"
    \* no access report is being polled
    /\ iam_roles = <<>>
    /\ iam_i = 0
    /\ iam_job = "none"
    /\ iam_out = <<>>
    /\ iam_pc = "idle"

\* The pool under load: any number of profiles up to MaxPoolProfiles, every
\* remote call succeeding.
InitPool ==
    /\ fan_script \in FanScripts
    /\ nprofiles \in 1..MaxPoolProfiles
    /\ remote = [pr \in Pairs(fan_script) |-> "ok"]
    /\ tstate = [t \in TaskIds |-> "unsubmitted"]
    /\ collected = {}
    /\ coord_pc = "submit"
    /\ results = <<>>
    /\ writers = {}
    /\ logs = {}
    /\ delays = 0
    /\ report = <<>>
    /\ written = FALSE
    /\ error_after_rows = FALSE
    /\ yield_first = {}
    /\ finished_q = <<>>
    /\ first_done = 0
    \* backoff_retry is not running
    /\ br_copy = "none"
    /\ func = <<>>
    /\ retries = 0
    /\ initial_delay = 0
    /\ br_pc = "idle"
    /\ attempt = 0
    /\ delay = 0
    /\ invocations = 0
    /\ sleeps = <<>>
    /\ br_result = "none"
    \* no sequential script is running
    /\ seq_script = "none"
    /\ seq_remote = <<>>
    /\ seq_next = 0
    /\ seq_rows = <<>>
    /\ seq_logs = {}
    /\ seq_pc = "idle"
    \* no concurrent invocations of backoff_retry
    /\ cc_copy = "none"
    /\ cc = <<>>
    \* no worksheets are being created
    /\ sh_script = "none"
    /\ sh_profiles = <<>>
    /\ sh_next = 0
    /\ worksheet_names = {}
    /\ sh_added = <<>>
    /\ sh_sheets = <<>>
    /\ sh_pc = "idle"
    \* no tag columns are being written
    /\ dc_script = "none"
    /\ dc_rows = <<>>
    /\ dc_header = <<>>
    /\ dc_lines = <<>>
    /\ dc_pc = "idle"
    \* no instance is being classified
    /\ rm_resp = <<>>
    /\ rm_role = "none"
    /\ rm_i = 0
    /\ rm_idle = FALSE
    /\ rm_logs = {}
    /\ idle_instances = <<>>
    /\ rm_pc = "idle"
    \* no access report is being polled
    /\ iam_roles = <<>>
    /\ iam_i = 0
    /\ iam_job = "none"
    /\ iam_out = <<>>
    /\ iam_pc = "idle"

\* The runs explored for termination: at most MaxLiveTasks (profile, region)
\* pairs, so up to MaxLiveTasks tasks for the three workers of
\* LB-Targets.py, and any subset of the pairs failing.
InitLive ==
    /\ fan_script \in FanScripts
    /\ nprofiles \in {n \in 1..MaxLiveTasks :
                        n * Len(RegionsOf(fan_script)) <= MaxLiveTasks}
    /\ remote \in [Pairs(fan_script) -> {"ok", "Unexpected"}]
    /\ tstate = [t \in TaskIds |-> "unsubmitted"]
    /\ collected = {}
    /\ coord_pc = "submit"
    /\ results = <<>>
    /\ writers = {}
    /\ logs = {}
    /\ delays = 0
    /\ report = <<>>
    /\ written = FALSE
    /\ error_after_rows = FALSE
    /\ yield_first = {}
    /\ finished_q = <<>>
    /\ first_done = 0
    \* backoff_retry is not running
    /\ br_copy = "none"
    /\ func = <<>>
    /\ retries = 0
    /\ initial_delay = 0
    /\ br_pc = "idle"
    /\ attempt = 0
    /\ delay = 0
    /\ invocations = 0
    /\ sleeps = <<>>
    /\ br_result = "none"
    \* no sequential script is running
    /\ seq_script = "none"
    /\ seq_remote = <<>>
    /\ seq_next = 0
    /\ seq_rows = <<>>
    /\ seq_logs = {}
    /\ seq_pc = "idle"
    \* no concurrent invocations of backoff_retry
    /\ cc_copy = "none"
    /\ cc = <<>>
    \* no worksheets are being created
    /\ sh_script = "none"
    /\ sh_profiles = <<>>
    /\ sh_next = 0
    /\ worksheet_names = {}
    /\ sh_added = <<>>
    /\ sh_sheets = <<>>
    /\ sh_pc = "idle"
    \* no tag columns are being written
    /\ dc_script = "none"
    /\ dc_rows = <<>>
    /\ dc_header = <<>>
    /\ dc_lines = <<>>
    /\ dc_pc = "idle"
    \* no instance is being classified
    /\ rm_resp = <<>>
    /\ rm_role = "none"
    /\ rm_i = 0
    /\ rm_idle = FALSE
    /\ rm_logs = {}
    /\ idle_instances = <<>>
    /\ rm_pc = "idle"
    \* no access report is being polled
    /\ iam_roles = <<>>
    /\ iam_i = 0
    /\ iam_job = "none"
    /\ iam_out = <<>>
    /\ iam_pc = "idle"

\* A work queue whose get() never returns an item.
OldestQueuedNever(ts) == 0

\* The oldest task waiting in the pool's work queue, 0 when none waits.
OldestQueued(ts) ==
    IF \A u \in DOMAIN ts : ts[u] # "queued" THEN 0
    ELSE CHOOSE u \in DOMAIN ts :
           ts[u] = "queued" /\ \A v \in DOMAIN ts : ts[v] = "queued" => u <= v

\* The worker thread that ran t completes its future with state st
\* (set_result or set_exception). It goes back to the work queue only
\* afterwards, in a step of its own (WorkerPickup).
WorkerDone(ts, t, st) == [ts EXCEPT ![t] = st]

\* executor.submit(...) for the next task of the comprehension: the future
\* is created and the work item is put in the queue (the executor makes
\* sure a worker thread exists). The item is taken by a worker thread in a
\* later step (WorkerPickup).
Submit(t) ==
    /\ coord_pc = "submit"
    /\ tstate[t] = "unsubmitted"
    /\ \A u \in TaskIds : u < t => tstate[u] # "unsubmitted"
    /\ tstate' = [tstate EXCEPT ![t] = "queued"]
    /\ coord_pc' = IF t = Len(TaskList(fan_script)) THEN "as_completed"
                                                     ELSE "submit"
    /\ UNCHANGED <<fan_script, nprofiles, remote, collected, results, writers, logs,
                   delays, report, written, error_after_rows>>
    /\ UNCHANGED <<varsBR, varsSeq, varsConc, varsOut>>
    /\ UNCHANGED <<yield_first, finished_q, first_done>>

\* A worker thread at work_queue.get() (a new thread, or one that has
\* completed a future) takes the oldest waiting work item; at most
\* max_workers threads exist.
WorkerPickup(t) ==
    /\ tstate[t] = "queued"
    /\ t = OldestQueued(tstate)
    /\ WorkerFree(Cardinality(Running))
    /\ tstate' = [tstate EXCEPT ![t] = "running"]
    /\ UNCHANGED <<fan_script, nprofiles, remote, collected, coord_pc, results,
                   writers, logs, delays, report, written, error_after_rows,
                   yield_first, finished_q, first_done>>
    /\ UNCHANGED <<varsBR, varsSeq, varsConc, varsOut>>

\* as_completed(future_to_profile) is called: the futures that are done at
\* this moment are set aside to be yielded first; the others notify the
\* iterator when they become done.
AsCompleted ==
    /\ coord_pc = "as_completed"
    /\ yield_first' = {t \in TaskIds : IsDone(t)}
    /\ coord_pc' = "collect"
    /\ UNCHANGED <<fan_script, nprofiles, remote, tstate, collected, results,
                   writers, logs, delays, report, written, error_after_rows,
                   finished_q, first_done>>
    /\ UNCHANGED <<varsBR, varsSeq, varsConc, varsOut>>

\* The task function has printed the error line of its except branch, if
\* its run has one.
Printed(t) == TaskRun(t).log \subseteq logs

\* The except branch of the task function prints its error line
\* (Find-EKS.py line 98, Idle-RDS.py line 114, LB-Targets.py lines 139,
\* 141, 143); the function has not returned yet and its future is still
\* running.
PrintError(t) ==
    /\ tstate[t] = "running"
    /\ ~Printed(t)
    /\ logs' = logs \cup TaskRun(t).log
    /\ error_after_rows' = (error_after_rows \/ results # <<>>)
    /\ UNCHANGED <<fan_script, nprofiles, remote, tstate, collected, coord_pc,
                   results, writers, delays, report, written, yield_first,
                   finished_q, first_done>>
    /\ UNCHANGED <<varsBR, varsSeq, varsConc, varsOut>>

\* The task function of Find-EKS.py or Idle-RDS.py returns, or the
\* exception leaves it, and the worker thread completes the future.
RunTask(t) ==
    /\ ~TaskStoresItself(fan_script)
    /\ tstate[t] = "running"
    /\ Printed(t)
    /\ tstate' = WorkerDone(tstate, t,
                            IF TaskRun(t).raised THEN "raised" ELSE "returned")
    /\ UNCHANGED <<fan_script, nprofiles, remote, collected, coord_pc, results, writers,
                   logs, delays, report, written, error_after_rows>>
    /\ UNCHANGED <<varsBR, varsSeq, varsConc, varsOut>>
    /\ finished_q' = Notify(finished_q, t)
    /\ first_done' = FirstDone(first_done, t)
    /\ UNCHANGED yield_first

\* LB-Targets.py, the task function up to line 135: the checks end (with
\* the rows they appended, error rows included) and the worker is about to
\* store session_data; or, an exception having reached the outer handlers
\* and been printed, the function returns and the worker thread completes
\* the future.
LBWork(t) ==
    /\ TaskStoresItself(fan_script)
    /\ tstate[t] = "running"
    /\ Printed(t)
    /\ IF TaskRun(t).log = {}
         THEN tstate' = [tstate EXCEPT ![t] = "storing"]
         ELSE tstate' = WorkerDone(tstate, t, "returned")
    /\ UNCHANGED <<fan_script, nprofiles, remote, collected, coord_pc, results, writers,
                   logs, delays, report, written, error_after_rows>>
    /\ UNCHANGED <<varsBR, varsSeq, varsConc, varsOut>>
    /\ IF TaskRun(t).log = {}
         THEN UNCHANGED <<finished_q, first_done>>
         ELSE /\ finished_q' = Notify(finished_q, t)
              /\ first_done' = FirstDone(first_done, t)
    /\ UNCHANGED yield_first

\* LB-Targets.py line 136: results[account_name] = session_data, run by the
\* worker thread; profiles are distinct keys, so the entry is new and lands
\* after the existing ones. The function has not returned yet.
LBStore(t) ==
    /\ TaskStoresItself(fan_script)
    /\ tstate[t] = "storing"
    /\ results' = results \o TaskRun(t).rows
    /\ writers' = writers \cup {WorkerThread(t)}
    /\ tstate' = [tstate EXCEPT ![t] = "stored"]
    /\ UNCHANGED <<fan_script, nprofiles, remote, collected, coord_pc, logs,
                   delays, report, written, error_after_rows>>
    /\ UNCHANGED <<varsBR, varsSeq, varsConc, varsOut>>
    /\ UNCHANGED <<yield_first, finished_q, first_done>>

\* LB-Targets.py line 137 and the return of the task function: the
\* completion message is printed and the future becomes done.
LBReturn(t) ==
    /\ TaskStoresItself(fan_script)
    /\ tstate[t] = "stored"
    /\ tstate' = WorkerDone(tstate, t, "returned")
    /\ UNCHANGED <<fan_script, nprofiles, remote, collected, coord_pc, results,
                   writers, logs, delays, report, written, error_after_rows>>
    /\ UNCHANGED <<varsBR, varsSeq, varsConc, varsOut>>
    /\ finished_q' = Notify(finished_q, t)
    /\ first_done' = FirstDone(first_done, t)
    /\ UNCHANGED yield_first

\* Where the coordinator goes after handling a future.
AfterCollect(c) == IF LoopExhausted(c) THEN "write" ELSE "collect"

\* results = future.result(): assignment in place of extend.
ExtendOverwrites(res, rows) == rows

\* results.extend(future.result()).
Extend(res, rows) == res \o rows

\* A handler of a failed future that also empties the collection.
OnTaskErrorClear(res) == <<>>

\* except Exception around future.result(): print only.
OnTaskError(res) == res

\* Find-EKS.py / Idle-RDS.py, one iteration of the as_completed loop:
\* extend the collection with future.result(), or print its exception.
Collect(t) ==
    /\ fan_script \in {"FindEKS", "IdleRDS"}
    /\ coord_pc = "collect"
    /\ IsDone(t)
    /\ Yields(t)
    /\ collected' = collected \cup {t}
    /\ IF tstate[t] = "raised"
         THEN /\ results' = OnTaskError(results)
              /\ logs' = logs \cup {LogLine(t, "main", fan_script = "FindEKS", FALSE)}
              /\ writers' = writers
         ELSE /\ results' = Extend(results, TaskRun(t).rows)
              /\ writers' = writers \cup {MainThread}
              /\ logs' = logs
    /\ coord_pc' = AfterCollect(collected')
    /\ UNCHANGED <<fan_script, nprofiles, remote, tstate, delays, report, written>>
    /\ error_after_rows' = (error_after_rows \/ (logs' # logs /\ results # <<>>))
    /\ UNCHANGED <<varsBR, varsSeq, varsConc, varsOut>>
    /\ finished_q' = AfterYield(finished_q, t)
    /\ UNCHANGED <<yield_first, first_done>>

\* LB-Targets.py, one iteration of the as_completed loop: future.result()
\* returns None; the finally clause delays unless the profile is the last
\* one of available_profiles.
LBCollect(t) ==
    /\ fan_script = "LBTargets"
    /\ coord_pc = "collect"
    /\ IsDone(t)
    /\ Yields(t)
    /\ collected' = collected \cup {t}
    /\ coord_pc' = IF TaskList(fan_script)[t].profile # nprofiles
                     THEN "delay"
                     ELSE AfterCollect(collected')
    /\ UNCHANGED <<fan_script, nprofiles, remote, tstate, results, writers, logs,
                   delays, report, written, error_after_rows>>
    /\ UNCHANGED <<varsBR, varsSeq, varsConc, varsOut>>
    /\ finished_q' = AfterYield(finished_q, t)
    /\ UNCHANGED <<yield_first, first_done>>

\* add_random_delay() of LB-Targets.py.
AddRandomDelay ==
    /\ coord_pc = "delay"
    /\ delays' = delays + 1
    /\ coord_pc' = AfterCollect(collected)
    /\ UNCHANGED <<fan_script, nprofiles, remote, tstate, collected, results, writers,
                   logs, report, written, error_after_rows>>
    /\ UNCHANGED <<varsBR, varsSeq, varsConc, varsOut>>
    /\ UNCHANGED <<yield_first, finished_q, first_done>>

\* The report writer after the with block: save_to_excel(results) of
\* Find-EKS.py writes nothing for an empty collection; Idle-RDS.py and
\* LB-Targets.py always write the file.
WriteReport ==
    /\ coord_pc = "write"
    /\ report' = results
    /\ written' = ~(fan_script = "FindEKS" /\ results = <<>>)
    /\ coord_pc' = "end"
    /\ UNCHANGED <<fan_script, nprofiles, remote, tstate, collected, results, writers,
                   logs, delays, error_after_rows>>
    /\ UNCHANGED <<varsBR, varsSeq, varsConc, varsOut>>
    /\ UNCHANGED <<yield_first, finished_q, first_done>>

NextFan ==
    \/ \E t \in TaskIds : Submit(t)
    \/ \E t \in TaskIds : WorkerPickup(t)
    \/ AsCompleted
    \/ \E t \in TaskIds : PrintError(t)
    \/ \E t \in TaskIds : RunTask(t)
    \/ \E t \in TaskIds : LBWork(t)
    \/ \E t \in TaskIds : LBStore(t)
    \/ \E t \in TaskIds : LBReturn(t)
    \/ \E t \in TaskIds : Collect(t)
    \/ \E t \in TaskIds : LBCollect(t)
    \/ AddRandomDelay
    \/ WriteReport

\* The executor side of the fan-out: submission and the worker threads.
\* The as_completed loop of the coordinator does not act on the pool.
NextPool ==
    \/ \E t \in TaskIds : Submit(t)
    \/ \E t \in TaskIds : WorkerPickup(t)
    \/ \E t \in TaskIds : RunTask(t)
    \/ \E t \in TaskIds : LBWork(t)
    \/ \E t \in TaskIds : LBStore(t)
    \/ \E t \in TaskIds : LBReturn(t)

(***************************************************************************)
(* Part 3: the sequential per-profile loops of RDS-Storage.py,             *)
(* EC2-Tags.py, IAM-Roles.py and EC2-EBS-Snapshots.py                      *)
(***************************************************************************)

SeqScripts == {"RDSStorage", "EC2Tags", "IAMRoles", "EBSSnapshots"}

\* regions of RDS-Storage.py main, REGION of EC2-Tags.py, REGIONS of
\* EC2-EBS-Snapshots.py; IAM is not regional.
SeqRegionsOf(s) ==
    CASE s = "RDSStorage"   -> <<"us-east-1", "eu-central-1">>
      [] s = "EC2Tags"      -> <<"us-east-1">>
      [] s = "IAMRoles"     -> <<"global">>
      [] s = "EBSSnapshots" -> <<"us-east-1", "eu-central-1">>

\* The (profile, region) pairs in the order the loops visit them:
\* for profile in profiles: for region in regions.
SeqPairs(s) ==
    [i \in 1..(NumProfiles * Len(SeqRegionsOf(s))) |->
        <<((i - 1) \div Len(SeqRegionsOf(s))) + 1,
          SeqRegionsOf(s)[((i - 1) % Len(SeqRegionsOf(s))) + 1]>>]

\* Whether an exception of kind o raised while a pair is processed is
\* caught (and printed) before it leaves main: except ClientError in
\* get_rds_instances_with_gp2 and get_ec2_instances_with_tags, with no
\* handler in their main; except Exception in IAM-Roles.py main and in
\* fetch_old_snapshots.
Catches(s, o) ==
    CASE s = "RDSStorage"   -> o = "ClientError"
      [] s = "EC2Tags"      -> o = "ClientError"
      [] s = "IAMRoles"     -> TRUE
      [] s = "EBSSnapshots" -> TRUE

InitSeq ==
    /\ seq_script \in SeqScripts
    /\ seq_remote \in
         {f \in [1..Len(SeqPairs(seq_script)) -> {"ok"} \cup ErrorKinds] :
            Cardinality({i \in DOMAIN f : f[i] # "ok"}) <= MaxFaults}
    /\ seq_next = 1
    /\ seq_rows = <<>>
    /\ seq_logs = {}
    /\ seq_pc = "loop"
    \* no concurrent invocations of backoff_retry
    /\ cc_copy = "none"
    /\ cc = <<>>
    \* no worksheets are being created
    /\ sh_script = "none"
    /\ sh_profiles = <<>>
    /\ sh_next = 0
    /\ worksheet_names = {}
    /\ sh_added = <<>>
    /\ sh_sheets = <<>>
    /\ sh_pc = "idle"
    \* no tag columns are being written
    /\ dc_script = "none"
    /\ dc_rows = <<>>
    /\ dc_header = <<>>
    /\ dc_lines = <<>>
    /\ dc_pc = "idle"
    \* no instance is being classified
    /\ rm_resp = <<>>
    /\ rm_role = "none"
    /\ rm_i = 0
    /\ rm_idle = FALSE
    /\ rm_logs = {}
    /\ idle_instances = <<>>
    /\ rm_pc = "idle"
    \* no access report is being polled
    /\ iam_roles = <<>>
    /\ iam_i = 0
    /\ iam_job = "none"
    /\ iam_out = <<>>
    /\ iam_pc = "idle"
    \* backoff_retry is not running
    /\ br_copy = "none"
    /\ func = <<>>
    /\ retries = 0
    /\ initial_delay = 0
    /\ br_pc = "idle"
    /\ attempt = 0
    /\ delay = 0
    /\ invocations = 0
    /\ sleeps = <<>>
    /\ br_result = "none"
    \* the fan-out is not running
    /\ fan_script = "none"
    /\ nprofiles = 0
    /\ remote = <<>>
    /\ tstate = <<>>
    /\ collected = {}
    /\ coord_pc = "idle"
    /\ results = <<>>
    /\ writers = {}
    /\ logs = {}
    /\ delays = 0
    /\ report = <<>>
    /\ written = FALSE
    /\ error_after_rows = FALSE
    /\ yield_first = {}
    /\ finished_q = <<>>
    /\ first_done = 0

\* One iteration of the loops of main: the pair's rows are gathered, or its
\* error is printed and the pair skipped, or the error leaves main.
SeqProcessPair ==
    /\ seq_pc = "loop"
    /\ seq_next <= Len(SeqPairs(seq_script))
    /\ LET pr == SeqPairs(seq_script)[seq_next]
           o  == seq_remote[seq_next]
       IN  IF o = "ok"
             THEN /\ seq_rows' = Append(seq_rows, Row(pr[1], pr[2]))
                  /\ seq_logs' = seq_logs
                  /\ seq_pc' = "loop"
                  /\ seq_next' = seq_next + 1
             ELSE IF Catches(seq_script, o)
               THEN /\ seq_logs' = seq_logs \cup {pr}
                    /\ seq_rows' = seq_rows
                    /\ seq_pc' = "loop"
                    /\ seq_next' = seq_next + 1
               ELSE /\ seq_pc' = "aborted"
                    /\ UNCHANGED <<seq_rows, seq_logs, seq_next>>
    /\ UNCHANGED seq_script
    /\ UNCHANGED seq_remote
    /\ UNCHANGED <<varsBR, varsFan, varsConc, varsOut>>

\* After the loops: workbook.close() / save_to_excel(...).
SeqWriteReport ==
    /\ seq_pc = "loop"
    /\ seq_next > Len(SeqPairs(seq_script))
    /\ seq_pc' = "closed"
    /\ UNCHANGED <<seq_script, seq_remote, seq_next, seq_rows, seq_logs>>
    /\ UNCHANGED <<varsBR, varsFan, varsConc, varsOut>>

NextSeq == SeqProcessPair \/ SeqWriteReport

(***************************************************************************)
(* Part 4: two tasks calling backoff_retry at the same time                *)
(***************************************************************************)

\* Largest retry count and number of invocations of the callable explored
\* for each of the concurrent calls.
MaxConcCalls == 2

\* The two calls, each in its own worker thread.
Invocations == {"A", "B"}

\* delay read from the frame of the first call, whoever asks.
DelayOfShared(c, i) == c["A"].delay

\* delay is a local variable of backoff_retry: each call reads and writes
\* the one of its own frame.
DelayOf(c, i) == c[i].delay

InitConc ==
    /\ cc_copy \in RetryCopies
    /\ cc \in [Invocations ->
                [func : [1..MaxConcCalls -> CallOutcomes \ {"OtherExc"}],
                 retries : 1..MaxConcCalls,
                 initial_delay : {DefaultDelay(cc_copy)},
                 pc : {"loop"},
                 attempt : {0},
                 delay : {DefaultDelay(cc_copy)},
                 invocations : {0},
                 sleeps : {<<>>},
                 result : {"none"}]]
    \* the single call of Part 1 is not running
    /\ br_copy = "none"
    /\ func = <<>>
    /\ retries = 0
    /\ initial_delay = 0
    /\ br_pc = "idle"
    /\ attempt = 0
    /\ delay = 0
    /\ invocations = 0
    /\ sleeps = <<>>
    /\ br_result = "none"
    \* the fan-out is not running
    /\ fan_script = "none"
    /\ nprofiles = 0
    /\ remote = <<>>
    /\ tstate = <<>>
    /\ collected = {}
    /\ coord_pc = "idle"
    /\ results = <<>>
    /\ writers = {}
    /\ logs = {}
    /\ delays = 0
    /\ report = <<>>
    /\ written = FALSE
    /\ error_after_rows = FALSE
    /\ yield_first = {}
    /\ finished_q = <<>>
    /\ first_done = 0
    \* no sequential script is running
    /\ seq_script = "none"
    /\ seq_remote = <<>>
    /\ seq_next = 0
    /\ seq_rows = <<>>
    /\ seq_logs = {}
    /\ seq_pc = "idle"
    \* no worksheets are being created
    /\ sh_script = "none"
    /\ sh_profiles = <<>>
    /\ sh_next = 0
    /\ worksheet_names = {}
    /\ sh_added = <<>>
    /\ sh_sheets = <<>>
    /\ sh_pc = "idle"
    \* no tag columns are being written
    /\ dc_script = "none"
    /\ dc_rows = <<>>
    /\ dc_header = <<>>
    /\ dc_lines = <<>>
    /\ dc_pc = "idle"
    \* no instance is being classified
    /\ rm_resp = <<>>
    /\ rm_role = "none"
    /\ rm_i = 0
    /\ rm_idle = FALSE
    /\ rm_logs = {}
    /\ idle_instances = <<>>
    /\ rm_pc = "idle"
    \* no access report is being polled
    /\ iam_roles = <<>>
    /\ iam_i = 0
    /\ iam_job = "none"
    /\ iam_out = <<>>
    /\ iam_pc = "idle"

\* Call i: try: return func(*args, **kwargs), with the except clause's
\* dispatch.
ConcInvoke(i) ==
    /\ cc[i].pc = "loop"
    /\ LoopHasNext(cc[i].attempt, cc[i].retries)
    /\ LET o == cc[i].func[cc[i].invocations + 1] IN
       cc' = [cc EXCEPT
                ![i].invocations = @ + 1,
                ![i].pc = IF o # "ok" /\ IsThrottling(o) THEN "sleep" ELSE "done",
                ![i].result = IF o = "ok" THEN "value"
                              ELSE IF IsThrottling(o) THEN @ ELSE o]
    /\ UNCHANGED cc_copy
    /\ UNCHANGED <<varsBR, varsFan, varsSeq, varsOut>>

\* Call i: print(...); time.sleep(delay); delay *= 2 and the next loop
\* iteration. time.sleep blocks the calling thread only.
ConcSleep(i) ==
    /\ cc[i].pc = "sleep"
    /\ IF TimeImported(cc_copy)
         THEN cc' = [cc EXCEPT
                       ![i].sleeps = Append(@, DelayOf(cc, i)),
                       ![i].delay = NextDelay(DelayOf(cc, i)),
                       ![i].attempt = @ + 1,
                       ![i].pc = "loop"]
         ELSE cc' = [cc EXCEPT ![i].pc = "done", ![i].result = "NameError"]
    /\ UNCHANGED cc_copy
    /\ UNCHANGED <<varsBR, varsFan, varsSeq, varsOut>>

\* Call i: raise Exception("Max retries reached ...") after the loop.
ConcExhausted(i) ==
    /\ cc[i].pc = "loop"
    /\ ~LoopHasNext(cc[i].attempt, cc[i].retries)
    /\ cc' = [cc EXCEPT ![i].pc = "done", ![i].result = "MaxRetries"]
    /\ UNCHANGED cc_copy
    /\ UNCHANGED <<varsBR, varsFan, varsSeq, varsOut>>

NextConc ==
    \/ \E i \in Invocations : ConcInvoke(i)
    \/ \E i \in Invocations : ConcSleep(i)
    \/ \E i \in Invocations : ConcExhausted(i)

(***************************************************************************)
(* Part 5: worksheet names of EC2-Tags.py and RDS-Storage.py               *)
(***************************************************************************)

\* Largest number of profiles and longest profile-name body explored.
NumSheetProfiles == 2
MaxBodyLen == 32

\* name[:31] of sanitize_worksheet_name; the limit of the workbook format.
SheetMaxLen == 31

\* original_name[:28] of RDS-Storage.py.
SuffixBaseLen == 28

SheetScripts == {"EC2Tags", "RDSStorage"}

\* Strings are sequences of characters.
Chars_account == <<"_", "a", "c", "c", "o", "u", "n", "t">>
Chars_Account == <<"_", "A", "c", "c", "o", "u", "n", "t">>

RegionChars(r) ==
    CASE r = "us-east-1"    -> <<"u", "s", "-", "e", "a", "s", "t", "-", "1">>
      [] r = "eu-central-1" -> <<"e", "u", "-", "c", "e", "n", "t", "r", "a",
                                 "l", "-", "1">>

\* n times the character c.
Fill(c, n) == [k \in 1..n |-> c]

\* The profile names explored: a body of one character or of about the
\* length limit, followed by nothing, by another letter, by characters the
\* workbook format forbids, or by the suffix the scripts strip, once or
\* twice.
NameBodyLens == {1} \cup ((SheetMaxLen - 1)..MaxBodyLen)
NameTails == {<<>>, <<"b">>, <<"/", "\\">>, Chars_account,
              Chars_account \o Chars_account}
ProfileNames == {Fill("a", n) \o tl : n \in NameBodyLens, tl \in NameTails}

\* name[:n]
Take(q, n) == SubSeq(q, 1, IF Len(q) < n THEN Len(q) ELSE n)

\* q ends with suf.
EndsWith(q, suf) ==
    /\ Len(suf) <= Len(q)
    /\ SubSeq(q, Len(q) - Len(suf) + 1, Len(q)) = suf

\* re.sub(r"_account$", "", name) of EC2-Tags.py,
\* re.sub(r'(_account|_Account)$', '', name) of RDS-Storage.py.
StripAccount(s, q) ==
    IF EndsWith(q, Chars_account) \/ (s = "RDSStorage" /\ EndsWith(q, Chars_Account))
      THEN SubSeq(q, 1, Len(q) - Len(Chars_account))
      ELSE q

\* q.replace(old, new) for single characters.
Replace(q, old, new) == [k \in 1..Len(q) |-> IF q[k] = old THEN new ELSE q[k]]

sanitize_worksheet_name(s, name) ==
    Replace(Replace(Take(StripAccount(s, name), SheetMaxLen), "/", "-"),
            "\\", "-")

\* str(n) for n >= 0.
DigitChars == <<"0", "1", "2", "3", "4", "5", "6", "7", "8", "9">>
RECURSIVE Str(_)
Str(n) == IF n < 10 THEN <<DigitChars[n + 1]>>
          ELSE Str(n \div 10) \o <<DigitChars[(n % 10) + 1]>>

\* What the numeric suffix is appended to: original_name in EC2-Tags.py,
\* original_name[:28] in RDS-Storage.py.
SuffixBase(s, original) ==
    IF s = "RDSStorage" THEN Take(original, SuffixBaseLen) ELSE original

\* while worksheet_name in worksheet_names:
\*     worksheet_name = f"{...}_{suffix}"; suffix += 1
RECURSIVE Dedupe(_, _, _, _, _)
Dedupe(s, original, name, names, suffix) ==
    IF name \in names
      THEN Dedupe(s, original, SuffixBase(s, original) \o <<"_">> \o Str(suffix),
                  names, suffix + 1)
      ELSE name

\* The partitions in loop order: the profiles in EC2-Tags.py, the
\* (profile, region) pairs in RDS-Storage.py.
NumPartitions == Len(sh_profiles) * Len(SeqRegionsOf(sh_script))

PartitionKey(i) ==
    LET regs == SeqRegionsOf(sh_script)
        prof == sh_profiles[((i - 1) \div Len(regs)) + 1]
        reg  == regs[((i - 1) % Len(regs)) + 1]
    IN  IF sh_script = "RDSStorage"
          THEN prof \o <<"_">> \o RegionChars(reg)
          ELSE prof

\* workbook.add_worksheet(name) of xlsxwriter accepts a name of at most 31
\* characters without the characters the format forbids and not in use
\* yet; otherwise it raises.
AddWorksheetAccepts(name, sheets) ==
    /\ Len(name) <= SheetMaxLen
    /\ \A k \in 1..Len(name) : name[k] \notin {"/", "\\", "[", "]", ":", "*", "?"}
    /\ \A k \in 1..Len(sheets) : sheets[k] # name

InitSheet ==
    /\ sh_script \in SheetScripts
    /\ sh_profiles \in {q \in UNION {[1..n -> ProfileNames] : n \in 1..NumSheetProfiles} :
                          \A i, j \in 1..Len(q) : i # j => q[i] # q[j]}
    /\ sh_next = 1
    /\ worksheet_names = {}
    /\ sh_added = <<>>
    /\ sh_sheets = <<>>
    /\ sh_pc = "loop"
    \* backoff_retry is not running
    /\ br_copy = "none"
    /\ func = <<>>
    /\ retries = 0
    /\ initial_delay = 0
    /\ br_pc = "idle"
    /\ attempt = 0
    /\ delay = 0
    /\ invocations = 0
    /\ sleeps = <<>>
    /\ br_result = "none"
    \* the fan-out is not running
    /\ fan_script = "none"
    /\ nprofiles = 0
    /\ remote = <<>>
    /\ tstate = <<>>
    /\ collected = {}
    /\ coord_pc = "idle"
    /\ results = <<>>
    /\ writers = {}
    /\ logs = {}
    /\ delays = 0
    /\ report = <<>>
    /\ written = FALSE
    /\ error_after_rows = FALSE
    /\ yield_first = {}
    /\ finished_q = <<>>
    /\ first_done = 0
    \* no sequential script is running
    /\ seq_script = "none"
    /\ seq_remote = <<>>
    /\ seq_next = 0
    /\ seq_rows = <<>>
    /\ seq_logs = {}
    /\ seq_pc = "idle"
    \* no concurrent invocations of backoff_retry
    /\ cc_copy = "none"
    /\ cc = <<>>
    \* no tag columns are being written
    /\ dc_script = "none"
    /\ dc_rows = <<>>
    /\ dc_header = <<>>
    /\ dc_lines = <<>>
    /\ dc_pc = "idle"
    \* no instance is being classified
    /\ rm_resp = <<>>
    /\ rm_role = "none"
    /\ rm_i = 0
    /\ rm_idle = FALSE
    /\ rm_logs = {}
    /\ idle_instances = <<>>
    /\ rm_pc = "idle"
    \* no access report is being polled
    /\ iam_roles = <<>>
    /\ iam_i = 0
    /\ iam_job = "none"
    /\ iam_out = <<>>
    /\ iam_pc = "idle"

\* One iteration of the loops for a partition that gets a worksheet: the
\* name is sanitized, made unique, recorded and passed to add_worksheet,
\* whose exception, if it raises, leaves main.
SheetAdd ==
    /\ sh_pc = "loop"
    /\ sh_next <= NumPartitions
    /\ LET original_name == sanitize_worksheet_name(sh_script, PartitionKey(sh_next))
           worksheet_name == Dedupe(sh_script, original_name, original_name,
                                    worksheet_names, 1)
       IN  /\ worksheet_names' = worksheet_names \cup {worksheet_name}
           /\ sh_added' = Append(sh_added, worksheet_name)
           /\ IF AddWorksheetAccepts(worksheet_name, sh_sheets)
                THEN /\ sh_sheets' = Append(sh_sheets, worksheet_name)
                     /\ sh_next' = sh_next + 1
                     /\ sh_pc' = "loop"
                ELSE /\ sh_pc' = "aborted"
                     /\ UNCHANGED <<sh_sheets, sh_next>>
    /\ UNCHANGED <<sh_script, sh_profiles>>
    /\ UNCHANGED <<varsBR, varsFan, varsSeq, varsConc, varsCols, varsAux>>

\* RDS-Storage.py: no gp2 instance was found for the pair (or its fetch
\* failed), and the loop continues without a worksheet.
SheetSkip ==
    /\ sh_script = "RDSStorage"
    /\ sh_pc = "loop"
    /\ sh_next <= NumPartitions
    /\ sh_next' = sh_next + 1
    /\ UNCHANGED <<sh_script, sh_profiles, worksheet_names, sh_added,
                   sh_sheets, sh_pc>>
    /\ UNCHANGED <<varsBR, varsFan, varsSeq, varsConc, varsCols, varsAux>>

\* workbook.close() after the loops.
SheetClose ==
    /\ sh_pc = "loop"
    /\ sh_next > NumPartitions
    /\ sh_pc' = "closed"
    /\ UNCHANGED <<sh_script, sh_profiles, sh_next, worksheet_names,
                   sh_added, sh_sheets>>
    /\ UNCHANGED <<varsBR, varsFan, varsSeq, varsConc, varsCols, varsAux>>

NextSheet == SheetAdd \/ SheetSkip \/ SheetClose

(***************************************************************************)
(* Part 6: the tag columns of API-Tags.py and EC2-Tags.py                  *)
(***************************************************************************)

\* Largest number of input rows (APIs, instances of one profile).
MaxRows == 2

ColScripts == {"APITags", "EC2Tags"}

\* The fixed columns: fieldnames of save_to_csv, column 0 of EC2-Tags.py.
BaseColumns(s) ==
    IF s = "APITags"
      THEN <<"id", "name", "description", "created_date", "resource_arn">>
      ELSE <<"InstanceId">>

\* The tag keys explored, listed in the order Python's string comparison
\* gives them; "name" is also a fixed column of API-Tags.py.
KeyOrder == <<"a", "b", "c", "name">>
TagKeyPool == Range(KeyOrder)

\* Cells: a fixed value of input row r, the value of its tag k, and the
\* filler of a missing tag: 'None' in API-Tags.py, a cell never written in
\* EC2-Tags.py.
BaseCell(r, c) == [kind |-> "base", row |-> r, of |-> c]
TagCell(r, k) == [kind |-> "tag", row |-> r, of |-> k]
Sentinel(s) ==
    [kind |-> IF s = "APITags" THEN "None" ELSE "empty", row |-> 0, of |-> ""]

\* The keys in the order the input happens to list them.
Unsorted(keys) == SelectSeq(<<"name", "c", "b", "a">>, LAMBDA k : k \in keys)

\* sorted(all_tags_keys)
Sorted(keys) == SelectSeq(KeyOrder, LAMBDA k : k \in keys)

\* all_tags_keys: every tag key of every row.
AllTagKeys(rows) == UNION {rows[r] : r \in 1..Len(rows)}

\* API-Tags.py: the dict row of input row r. It gets the fixed values, then
\* one entry per key of all_tags_keys: the tag's value or 'None'; an entry
\* for a key that is also a fixed column replaces the fixed value.
ApiRowDict(rows, r) ==
    [f \in Range(BaseColumns("APITags")) \cup AllTagKeys(rows) |->
        IF f \in AllTagKeys(rows)
          THEN IF f \in rows[r] THEN TagCell(r, f) ELSE Sentinel("APITags")
          ELSE BaseCell(r, f)]

\* The cells written for input row r under the header hdr: DictWriter
\* writes row[f] for every field name f; EC2-Tags.py writes the instance id
\* in column 0 and each tag of the instance in the column of its key.
WrittenLine(s, rows, hdr, r) ==
    IF s = "APITags"
      THEN [j \in 1..Len(hdr) |-> ApiRowDict(rows, r)[hdr[j]]]
      ELSE [j \in 1..Len(hdr) |->
              IF j = 1 THEN BaseCell(r, "InstanceId")
              ELSE IF hdr[j] \in rows[r] THEN TagCell(r, hdr[j])
              ELSE Sentinel("EC2Tags")]

InitCols ==
    /\ dc_script \in ColScripts
    /\ dc_rows \in UNION {[1..n -> SUBSET TagKeyPool] : n \in 0..MaxRows}
    /\ dc_header = <<>>
    /\ dc_lines = <<>>
    /\ dc_pc = "header"
    \* no instance is being classified
    /\ rm_resp = <<>>
    /\ rm_role = "none"
    /\ rm_i = 0
    /\ rm_idle = FALSE
    /\ rm_logs = {}
    /\ idle_instances = <<>>
    /\ rm_pc = "idle"
    \* no access report is being polled
    /\ iam_roles = <<>>
    /\ iam_i = 0
    /\ iam_job = "none"
    /\ iam_out = <<>>
    /\ iam_pc = "idle"
    \* backoff_retry is not running
    /\ br_copy = "none"
    /\ func = <<>>
    /\ retries = 0
    /\ initial_delay = 0
    /\ br_pc = "idle"
    /\ attempt = 0
    /\ delay = 0
    /\ invocations = 0
    /\ sleeps = <<>>
    /\ br_result = "none"
    \* the fan-out is not running
    /\ fan_script = "none"
    /\ nprofiles = 0
    /\ remote = <<>>
    /\ tstate = <<>>
    /\ collected = {}
    /\ coord_pc = "idle"
    /\ results = <<>>
    /\ writers = {}
    /\ logs = {}
    /\ delays = 0
    /\ report = <<>>
    /\ written = FALSE
    /\ error_after_rows = FALSE
    /\ yield_first = {}
    /\ finished_q = <<>>
    /\ first_done = 0
    \* no sequential script is running
    /\ seq_script = "none"
    /\ seq_remote = <<>>
    /\ seq_next = 0
    /\ seq_rows = <<>>
    /\ seq_logs = {}
    /\ seq_pc = "idle"
    \* no concurrent invocations of backoff_retry
    /\ cc_copy = "none"
    /\ cc = <<>>
    \* no worksheets are being created
    /\ sh_script = "none"
    /\ sh_profiles = <<>>
    /\ sh_next = 0
    /\ worksheet_names = {}
    /\ sh_added = <<>>
    /\ sh_sheets = <<>>
    /\ sh_pc = "idle"

\* The header: the fixed columns, then the sorted tag keys
\* (fieldnames.extend(sorted(all_tags_keys)) and writeheader(); the header
\* loop of EC2-Tags.py).
ColsWriteHeader ==
    /\ dc_pc = "header"
    /\ dc_header' = BaseColumns(dc_script) \o Sorted(AllTagKeys(dc_rows))
    /\ dc_pc' = "rows"
    /\ UNCHANGED <<dc_script, dc_rows, dc_lines>>
    /\ UNCHANGED <<varsBR, varsFan, varsSeq, varsConc, varsSheet, varsAux>>

\* One iteration of the row loop.
ColsWriteRow ==
    /\ dc_pc = "rows"
    /\ Len(dc_lines) < Len(dc_rows)
    /\ dc_lines' = Append(dc_lines,
                          WrittenLine(dc_script, dc_rows, dc_header,
                                      Len(dc_lines) + 1))
    /\ UNCHANGED <<dc_script, dc_rows, dc_header, dc_pc>>
    /\ UNCHANGED <<varsBR, varsFan, varsSeq, varsConc, varsSheet, varsAux>>

\* The row loop ends and the file is closed.
ColsClose ==
    /\ dc_pc = "rows"
    /\ Len(dc_lines) = Len(dc_rows)
    /\ dc_pc' = "closed"
    /\ UNCHANGED <<dc_script, dc_rows, dc_header, dc_lines>>
    /\ UNCHANGED <<varsBR, varsFan, varsSeq, varsConc, varsSheet, varsAux>>

NextCols == ColsWriteHeader \/ ColsWriteRow \/ ColsClose

(***************************************************************************)
(* Part 7: the idleness test of Idle-RDS.py                                *)
(*                                                                         *)
(* get_idle_rds_instances asks, for one DB instance, the cluster role and  *)
(* then get_rds_metrics, which fetches the six metrics of                  *)
(* METRIC_THRESHOLDS in the order of the dictionary.  A response is either *)
(* an exception or a list of datapoints, each with an Average.             *)
(***************************************************************************)

\* Longest list of datapoints a response carries.
MaxDatapoints == 1

\* The keys of METRIC_THRESHOLDS, in insertion order (the order of
\* METRIC_THRESHOLDS.items()).
Metrics == <<"DatabaseConnections", "ReadIOPS", "WriteIOPS", "CPUUtilization",
             "NetworkReceiveThroughput", "NetworkTransmitThroughput">>

METRIC_THRESHOLDS ==
    [DatabaseConnections |-> 1, ReadIOPS |-> 5, WriteIOPS |-> 5,
     CPUUtilization |-> 5, NetworkReceiveThroughput |-> 1024,
     NetworkTransmitThroughput |-> 1024]

Threshold(i) == METRIC_THRESHOLDS[Metrics[i]]

\* The Averages a datapoint of metric i takes: below, at and above the
\* threshold.
Averages(i) == {Threshold(i) - 1, Threshold(i), Threshold(i) + 1}

\* What get_metric_statistics does for metric i: it raises, or it returns
\* Datapoints.
MetricResponses(i) ==
    {[ok |-> FALSE, datapoints |-> <<>>]}
        \cup {[ok |-> TRUE, datapoints |-> d] :
                 d \in UNION {[1..n -> Averages(i)] : n \in 0..MaxDatapoints}}

\* any(point["Average"] > threshold for point in datapoints)
Exceeds(resp, i) ==
    \E k \in 1..Len(resp[i].datapoints) : resp[i].datapoints[k] > Threshold(i)

\* get_rds_metrics from metric i on, with the current value of idle: an
\* exception is printed and the loop goes on; a metric above its threshold
\* sets idle to False and breaks.
RECURSIVE MetricsFrom(_, _, _)
MetricsFrom(resp, i, idle) ==
    IF i > Len(Metrics) THEN idle
    ELSE IF ~resp[i].ok THEN MetricsFrom(resp, i + 1, idle)
    ELSE IF Exceeds(resp, i) THEN FALSE
    ELSE MetricsFrom(resp, i + 1, idle)

get_rds_metrics(resp) == MetricsFrom(resp, 1, TRUE)

\* What get_cluster_role returns: IsClusterWriter of the member, or None
\* when the instance is in no cluster or the lookup failed.
ClusterRoles == {"True", "False", "None"}

InitIdle ==
    /\ rm_resp \in {<<a, b, c, d, e, f>> :
                      a \in MetricResponses(1), b \in MetricResponses(2),
                      c \in MetricResponses(3), d \in MetricResponses(4),
                      e \in MetricResponses(5), f \in MetricResponses(6)}
    /\ rm_role = "none"
    /\ rm_i = 0
    /\ rm_idle = FALSE
    /\ rm_logs = {}
    /\ idle_instances = <<>>
    /\ rm_pc = "role"
    \* backoff_retry is not running
    /\ br_copy = "none"
    /\ func = <<>>
    /\ retries = 0
    /\ initial_delay = 0
    /\ br_pc = "idle"
    /\ attempt = 0
    /\ delay = 0
    /\ invocations = 0
    /\ sleeps = <<>>
    /\ br_result = "none"
    \* the fan-out is not running
    /\ fan_script = "none"
    /\ nprofiles = 0
    /\ remote = <<>>
    /\ tstate = <<>>
    /\ collected = {}
    /\ coord_pc = "idle"
    /\ results = <<>>
    /\ writers = {}
    /\ logs = {}
    /\ delays = 0
    /\ report = <<>>
    /\ written = FALSE
    /\ error_after_rows = FALSE
    /\ yield_first = {}
    /\ finished_q = <<>>
    /\ first_done = 0
    \* no sequential script is running
    /\ seq_script = "none"
    /\ seq_remote = <<>>
    /\ seq_next = 0
    /\ seq_rows = <<>>
    /\ seq_logs = {}
    /\ seq_pc = "idle"
    \* no concurrent invocations of backoff_retry
    /\ cc_copy = "none"
    /\ cc = <<>>
    \* no tag columns are being written
    /\ dc_script = "none"
    /\ dc_rows = <<>>
    /\ dc_header = <<>>
    /\ dc_lines = <<>>
    /\ dc_pc = "idle"
    \* no worksheets are being created
    /\ sh_script = "none"
    /\ sh_profiles = <<>>
    /\ sh_next = 0
    /\ worksheet_names = {}
    /\ sh_added = <<>>
    /\ sh_sheets = <<>>
    /\ sh_pc = "idle"
    \* no access report is being polled
    /\ iam_roles = <<>>
    /\ iam_i = 0
    /\ iam_job = "none"
    /\ iam_out = <<>>
    /\ iam_pc = "idle"

\* get_idle_rds_instances, one instance up to the call of get_rds_metrics:
\* a reader or standby instance (cluster_role is False) is skipped.
IdleClusterRole ==
    /\ rm_pc = "role"
    /\ \E role \in ClusterRoles :
          /\ rm_role' = role
          /\ rm_pc' = IF role = "False" THEN "done" ELSE "metrics"
          /\ rm_i' = IF role = "False" THEN rm_i ELSE 1
          /\ rm_idle' = IF role = "False" THEN rm_idle ELSE TRUE
    /\ UNCHANGED <<rm_resp, rm_logs, idle_instances>>
    /\ UNCHANGED <<varsBR, varsFan, varsSeq, varsConc, varsSheet, varsCols, varsIam>>

\* One iteration of the loop of get_rds_metrics.
IdleFetchMetric ==
    /\ rm_pc = "metrics"
    /\ rm_logs' = IF rm_resp[rm_i].ok THEN rm_logs ELSE rm_logs \cup {rm_i}
    /\ rm_idle' = IF rm_resp[rm_i].ok /\ Exceeds(rm_resp, rm_i) THEN FALSE ELSE rm_idle
    /\ rm_i' = IF rm_resp[rm_i].ok /\ Exceeds(rm_resp, rm_i) THEN rm_i ELSE rm_i + 1
    /\ rm_pc' = IF (rm_resp[rm_i].ok /\ Exceeds(rm_resp, rm_i)) \/ rm_i = Len(Metrics)
                  THEN "return" ELSE "metrics"
    /\ UNCHANGED <<rm_resp, rm_role, idle_instances>>
    /\ UNCHANGED <<varsBR, varsFan, varsSeq, varsConc, varsSheet, varsCols, varsIam>>

\* get_rds_metrics returns idle; the caller appends the instance when the
\* value is true.
IdleReturn ==
    /\ rm_pc = "return"
    /\ idle_instances' = IF rm_idle THEN Append(idle_instances, "No significant activity")
                                    ELSE idle_instances
    /\ rm_pc' = "done"
    /\ UNCHANGED <<rm_resp, rm_role, rm_i, rm_idle, rm_logs>>
    /\ UNCHANGED <<varsBR, varsFan, varsSeq, varsConc, varsSheet, varsCols, varsIam>>

NextIdle == IdleClusterRole \/ IdleFetchMetric \/ IdleReturn

(***************************************************************************)
(* Part 8: the polling loop of IAM-Access.py                               *)
(*                                                                         *)
(* get_iam_roles_last_accessed lists at most three roles and, for each,    *)
(* starts an access-report job and polls its status every 10 seconds.  The *)
(* job runs on the service's side: it is IN_PROGRESS until it becomes      *)
(* COMPLETED or FAILED, and a finished job does not change again.  After a  *)
(* COMPLETED job the details are printed; computing the age of a service's *)
(* last use can raise TypeError, which ends the function.                  *)
(***************************************************************************)

\* Largest number of roles list_roles returns in the model (MaxItems=3 in
\* the code).
MaxRoles == 2

JobFates == {"COMPLETED", "FAILED"}

\* Largest number of entries of 'ServicesLastAccessed' in the model.
MaxServices == 2

\* service.get('LastAuthenticated', None) of one entry: the key is missing
\* ("none"), or it is a datetime.  botocore parses timestamps into
\* timezone-aware datetimes ("aware"); "naive" is a datetime without tzinfo.
LastAuthenticatedKinds == {"none", "aware", "naive"}

\* The details of a finished job: without the key 'ServicesLastAccessed',
\* or with the list of its entries.
ServiceKeys ==
    {[key |-> FALSE, entries |-> <<>>]}
      \cup {[key |-> TRUE, entries |-> e] :
               e \in UNION {[1..n -> LastAuthenticatedKinds] : n \in 0..MaxServices}}

\* days_ago = (datetime.utcnow() - last_authenticated).days: utcnow() is
\* naive, and subtracting an aware datetime from it raises TypeError.
SubtractRaises(last_authenticated) == last_authenticated = "aware"

\* The body of for service in last_accessed_details['ServicesLastAccessed']
\* from entry k on: the lines printed, and whether line 50 raised.
RECURSIVE ServiceLines(_, _)
ServiceLines(services, k) ==
    IF k > Len(services) THEN [lines |-> <<>>, raised |-> FALSE]
    ELSE IF services[k] = "none"
      THEN LET rest == ServiceLines(services, k + 1)
           IN  [lines |-> <<"Last Accessed: Never">> \o rest.lines,
                raised |-> rest.raised]
    ELSE IF SubtractRaises(services[k])
      THEN [lines |-> <<>>, raised |-> TRUE]
    ELSE LET rest == ServiceLines(services, k + 1)
         IN  [lines |-> <<"Last Accessed: days ago">> \o rest.lines,
              raised |-> rest.raised]

\* Lines 42-57 for one role: what is printed, and whether TypeError left
\* the function.
PrintDetails(details) ==
    IF ~details.key
      THEN [lines |-> <<"Role, No services accessed.", "">>, raised |-> FALSE]
      ELSE LET body == ServiceLines(details.entries, 1)
           IN  [lines |-> <<"Role">> \o body.lines
                            \o (IF body.raised THEN <<>> ELSE <<"">>),
                raised |-> body.raised]

InitIam ==
    /\ iam_roles \in UNION {[1..n -> [fate : JobFates, services : ServiceKeys]] :
                               n \in 0..MaxRoles}
    /\ iam_i = 1
    /\ iam_job = "none"
    /\ iam_out = <<>>
    /\ iam_pc = "generate"
    \* backoff_retry is not running
    /\ br_copy = "none"
    /\ func = <<>>
    /\ retries = 0
    /\ initial_delay = 0
    /\ br_pc = "idle"
    /\ attempt = 0
    /\ delay = 0
    /\ invocations = 0
    /\ sleeps = <<>>
    /\ br_result = "none"
    \* the fan-out is not running
    /\ fan_script = "none"
    /\ nprofiles = 0
    /\ remote = <<>>
    /\ tstate = <<>>
    /\ collected = {}
    /\ coord_pc = "idle"
    /\ results = <<>>
    /\ writers = {}
    /\ logs = {}
    /\ delays = 0
    /\ report = <<>>
    /\ written = FALSE
    /\ error_after_rows = FALSE
    /\ yield_first = {}
    /\ finished_q = <<>>
    /\ first_done = 0
    \* no sequential script is running
    /\ seq_script = "none"
    /\ seq_remote = <<>>
    /\ seq_next = 0
    /\ seq_rows = <<>>
    /\ seq_logs = {}
    /\ seq_pc = "idle"
    \* no concurrent invocations of backoff_retry
    /\ cc_copy = "none"
    /\ cc = <<>>
    \* no tag columns are being written
    /\ dc_script = "none"
    /\ dc_rows = <<>>
    /\ dc_header = <<>>
    /\ dc_lines = <<>>
    /\ dc_pc = "idle"
    \* no worksheets are being created
    /\ sh_script = "none"
    /\ sh_profiles = <<>>
    /\ sh_next = 0
    /\ worksheet_names = {}
    /\ sh_added = <<>>
    /\ sh_sheets = <<>>
    /\ sh_pc = "idle"
    \* no instance is being classified
    /\ rm_resp = <<>>
    /\ rm_role = "none"
    /\ rm_i = 0
    /\ rm_idle = FALSE
    /\ rm_logs = {}
    /\ idle_instances = <<>>
    /\ rm_pc = "idle"

\* for role in response['Roles']: generate_service_last_accessed_details
\* starts the job of the next role.
IamGenerate ==
    /\ iam_pc = "generate"
    /\ iam_i <= Len(iam_roles)
    /\ iam_job' = "IN_PROGRESS"
    /\ iam_pc' = "poll"
    /\ UNCHANGED <<iam_roles, iam_i, iam_out>>
    /\ UNCHANGED <<varsBR, varsFan, varsSeq, varsConc, varsSheet, varsCols, varsIdle>>

\* The service finishes the job.
IamJobFinish ==
    /\ iam_job = "IN_PROGRESS"
    /\ iam_job' = iam_roles[iam_i].fate
    /\ UNCHANGED <<iam_roles, iam_i, iam_out, iam_pc>>
    /\ UNCHANGED <<varsBR, varsFan, varsSeq, varsConc, varsSheet, varsCols, varsIdle>>

\* get_service_last_accessed_details inside while True: break when the
\* status is 'COMPLETED', else go to the sleep.
IamPoll ==
    /\ iam_pc = "poll"
    /\ iam_pc' = IF iam_job = "COMPLETED" THEN "fetch" ELSE "sleep"
    /\ UNCHANGED <<iam_roles, iam_i, iam_job, iam_out>>
    /\ UNCHANGED <<varsBR, varsFan, varsSeq, varsConc, varsSheet, varsCols, varsIdle>>

\* time.sleep(10), then the next iteration of while True.
IamSleep ==
    /\ iam_pc = "sleep"
    /\ iam_pc' = "poll"
    /\ UNCHANGED <<iam_roles, iam_i, iam_job, iam_out>>
    /\ UNCHANGED <<varsBR, varsFan, varsSeq, varsConc, varsSheet, varsCols, varsIdle>>

\* After the loop: the details are fetched and printed.  When no entry
\* makes line 50 raise, the for loop goes to the next role; otherwise the
\* TypeError leaves get_iam_roles_last_accessed, which has no handler, and
\* the call at line 60 ends the script.
IamFetch ==
    /\ iam_pc = "fetch"
    /\ LET out == PrintDetails(iam_roles[iam_i].services)
       IN  /\ iam_out' = iam_out \o out.lines
           /\ IF out.raised
                THEN /\ iam_pc' = "raised"
                     /\ UNCHANGED <<iam_i, iam_job>>
                ELSE /\ iam_i' = iam_i + 1
                     /\ iam_job' = "none"
                     /\ iam_pc' = "generate"
    /\ UNCHANGED <<iam_roles>>
    /\ UNCHANGED <<varsBR, varsFan, varsSeq, varsConc, varsSheet, varsCols, varsIdle>>

\* The for loop is exhausted and the function returns.
IamReturn ==
    /\ iam_pc = "generate"
    /\ iam_i > Len(iam_roles)
    /\ iam_pc' = "end"
    /\ UNCHANGED <<iam_roles, iam_i, iam_job, iam_out>>
    /\ UNCHANGED <<varsBR, varsFan, varsSeq, varsConc, varsSheet, varsCols, varsIdle>>

NextIam ==
    \/ IamGenerate
    \/ IamJobFinish
    \/ IamPoll
    \/ IamSleep
    \/ IamFetch
    \/ IamReturn

(***************************************************************************)
(* Specifications                                                          *)
(***************************************************************************)

vars == <<varsBR, varsFan, varsSeq, varsConc, varsOut>>

SpecRetry == InitBR /\ [][NextBR]_vars

SpecFan == InitFan /\ [][NextFan]_vars

SpecSeq == InitSeq /\ [][NextSeq]_vars

SpecPool == InitPool /\ [][NextPool]_vars

\* Every remote call returns or raises and the scheduler lets some thread
\* that can take a step take one.
SpecLive == InitLive /\ [][NextFan]_vars /\ WF_vars(NextFan)

SpecConc == InitConc /\ [][NextConc]_vars

SpecSheet == InitSheet /\ [][NextSheet]_vars

SpecCols == InitCols /\ [][NextCols]_vars

SpecIdle == InitIdle /\ [][NextIdle]_vars

\* The main thread of IAM-Access.py is the only thread and keeps running.
SpecIam == InitIam /\ [][NextIam]_vars /\ WF_vars(NextIam)

(***************************************************************************)
(* Properties of backoff_retry                                             *)
(***************************************************************************)

RECURSIVE Pow2(_)
Pow2(k) == IF k = 0 THEN 1 ELSE 2 * Pow2(k - 1)

\* d, 2d, 4d, ...: n delays starting at d and doubling.
DoublingDelays(d, n) == [k \in 1..n |-> d * Pow2(k - 1)]

\* Number of rate-limit failures of f before its first other outcome.
RECURSIVE ThrottlesFrom(_, _)
ThrottlesFrom(f, k) ==
    IF k > Len(f) THEN 0
    ELSE IF f[k] = "Throttling" THEN 1 + ThrottlesFrom(f, k + 1) ELSE 0

LeadingThrottles(f) == ThrottlesFrom(f, 1)

\* f fails with a rate-limit error on its first n invocations and succeeds
\* on invocation n+1.
FailsThenSucceeds(f, n) ==
    /\ LeadingThrottles(f) = n
    /\ n + 1 <= Len(f)
    /\ f[n + 1] = "ok"

\* C1: when func is rate-limited on its first N < R invocations and succeeds
\* on invocation N+1, backoff_retry returns the success value after exactly
\* N+1 invocations and N sleeps of d, 2d, 4d, ...
C1_RetryThenSuccess ==
    (br_pc = "done" /\ \E n \in 0..MaxRetries :
                          n < retries /\ FailsThenSucceeds(func, n))
    => /\ br_result = "value"
       /\ invocations = LeadingThrottles(func) + 1
       /\ sleeps = DoublingDelays(initial_delay, LeadingThrottles(func))

\* C2 as stated, on the copy whose sleep works: a callable that is
\* rate-limited exactly R times and then succeeds still returns its value.
C2_RetriesAfterInitial ==
    (br_pc = "done" /\ br_copy = "LBTargets" /\ retries >= 1
       /\ FailsThenSucceeds(func, retries))
    => br_result = "value"

\* C2 amended: the callable is invoked at most R times in all (the first
\* invocation and at most R-1 retries); a callable rate-limited on its first
\* R invocations is not invoked again and the wrapper raises, it does not
\* return the value the next invocation would give.
C2_AtMostRInvocations ==
    /\ invocations <= retries
    /\ (br_pc = "done" /\ LeadingThrottles(func) >= retries)
         => /\ br_result \in {"MaxRetries", "NameError"}
            /\ TimeImported(br_copy) =>
                 (br_result = "MaxRetries" /\ invocations = retries)

C2_Witness ==
    /\ br_pc = "done"
    /\ br_copy = "LBTargets"
    /\ retries >= 2
    /\ FailsThenSucceeds(func, retries)
    /\ invocations = retries
    /\ br_result = "MaxRetries"

\* C3: an invocation that fails with an error that is not a rate-limit error
\* ends the wrapper at once with that same error: no sleep for it, no
\* doubling of the delay, no further invocation; on the first attempt and on
\* a later one.
C3_OtherErrorPropagates ==
    \A k \in 1..invocations :
        func[k] \in {"ClientOther", "OtherExc"}
        => /\ br_pc = "done"
           /\ br_result = func[k]
           /\ invocations = k
           /\ sleeps = DoublingDelays(initial_delay, k - 1)
           /\ delay = initial_delay * Pow2(k - 1)

C3_Witness ==
    /\ br_pc = "done"
    /\ invocations >= 2
    /\ func[invocations] = "ClientOther"
    /\ br_result = "ClientOther"
    /\ Len(sleeps) = invocations - 1

\* C4: when every permitted attempt is rate-limited the callable is invoked
\* no more than the retry count allows and the wrapper ends with the
\* retries-exhausted error, never with a value.
C4_ExhaustionRaises ==
    /\ invocations <= retries
    /\ (br_pc = "done" /\ retries >= 1 /\ LeadingThrottles(func) >= retries)
         => br_result = "MaxRetries"

\* C20: whichever copy ran, the other copy, given the same callable, retry
\* count and initial delay, makes the same invocations and sleeps and ends
\* with the same outcome.
C20_CopiesEquivalent ==
    br_pc = "done" =>
        \A c \in RetryCopies :
            backoff_retry(c, func, retries, initial_delay)
              = [result |-> br_result, invocations |-> invocations,
                 sleeps |-> sleeps]

\* The sum of the numbers of a sequence.
RECURSIVE SumSeq(_)
SumSeq(q) == IF q = <<>> THEN 0 ELSE Head(q) + SumSeq(Tail(q))

\* C26: when the LB-Targets.py copy, called with retry count R and initial
\* delay d, finds every attempt rate-limited, it ends with the
\* retries-exhausted error after exactly R invocations and exactly R sleeps
\* of d, 2d, ..., 2^(R-1)*d, the last of them after the final failed
\* attempt; the time slept is d*(2^R - 1).
C26_ExhaustionSleeps ==
    (br_copy = "LBTargets" /\ br_pc = "done" /\ LeadingThrottles(func) >= retries)
      => /\ br_result = "MaxRetries"
         /\ invocations = retries
         /\ sleeps = DoublingDelays(initial_delay, retries)
         /\ SumSeq(sleeps) = initial_delay * (Pow2(retries) - 1)

C26_Witness ==
    /\ br_copy = "LBTargets"
    /\ br_pc = "done"
    /\ retries >= 2
    /\ LeadingThrottles(func) >= retries
    /\ Len(sleeps) = retries
    /\ sleeps[retries] = NextDelay(sleeps[retries - 1])
    /\ br_result = "MaxRetries"

(***************************************************************************)
(* Properties of the fan-out                                               *)
(***************************************************************************)

\* Task t is the one that fetches the pair a row comes from.
Covers(t, row) ==
    /\ TaskList(fan_script)[t].profile = row.profile
    /\ TaskList(fan_script)[t].region \in {"*", row.region}

OwnerOf(row) == CHOOSE t \in TaskIds : Covers(t, row)

\* The work of task t fails: an exception leaves the task function, or, in
\* LB-Targets.py, reaches its outer handlers.
TaskFails(t) ==
    \/ TaskRun(t).raised
    \/ TaskStoresItself(fan_script) /\ TaskRun(t).log # {}

\* C5: when the run is over, every task has run to its end, every row of
\* every task that did not raise is in the report, and every failing task
\* has an error line and no row in the report.
C5_FailureIsolated ==
    coord_pc = "end" =>
      /\ \A t \in TaskIds : IsDone(t)
      /\ \A t \in TaskIds :
            ~TaskRun(t).raised => Range(TaskRun(t).rows) \subseteq Range(report)
      /\ \A t \in TaskIds :
            TaskFails(t) => /\ \E l \in logs : l.task = t
                            /\ \A row \in Range(report) : ~Covers(t, row)

C5_Witness ==
    /\ coord_pc = "end"
    /\ written
    /\ \E t, u \in TaskIds :
          /\ TaskRun(t).raised
          /\ tstate[t] = "raised"
          /\ TaskRun(u).rows # <<>>
          /\ Range(TaskRun(u).rows) \subseteq Range(report)

\* C6 as stated: every step keeps the rows already collected, in place; a
\* step that prints an error line or hands a failed task to the coordinator
\* leaves the collection as it was; the collection changes only by the rows
\* of one completed task being appended.
C6_GrowsByCompleted ==
    [][ /\ Len(results') >= Len(results)
        /\ SubSeq(results', 1, Len(results)) = results
        /\ (logs' # logs => results' = results)
        /\ \A t \in TaskIds :
              (t \in collected' \ collected /\ tstate[t] = "raised")
                => results' = results
        /\ (results' # results =>
              \E t \in TaskIds : /\ results' = results \o TaskRun(t).rows
                                 /\ IsDone(t))
      ]_vars

\* C6 amended: every step keeps the rows already collected, in place; a
\* step that prints an error line or hands a failed task to the coordinator
\* leaves the collection as it was; the collection changes only by the rows
\* of one task being appended: in Find-EKS.py and Idle-RDS.py the rows of a
\* task that has returned, in the step in which the coordinator is handed
\* it; in LB-Targets.py the rows of a task that is still running, in the
\* step in which its worker stores them at the end of the task function.
C6_FailureKeepsRows ==
    [][ /\ Len(results') >= Len(results)
        /\ SubSeq(results', 1, Len(results)) = results
        /\ (logs' # logs => results' = results)
        /\ \A t \in TaskIds :
              (t \in collected' \ collected /\ tstate[t] = "raised")
                => results' = results
        /\ (results' # results =>
              \E t \in TaskIds :
                 /\ results' = results \o TaskRun(t).rows
                 /\ IF TaskStoresItself(fan_script)
                      THEN tstate[t] = "storing" /\ tstate'[t] = "stored"
                      ELSE tstate[t] = "returned" /\ t \in collected' \ collected)
      ]_vars

C6_Witness ==
    /\ error_after_rows
    /\ results # <<>>
    /\ \E t \in collected : tstate[t] = "raised"

\* C7: when the fetch of exactly one (profile, region) pair raises a
\* connectivity error and every other fetch succeeds, the report holds the
\* rows of all other pairs, those of the failing profile's other regions
\* included, and an error line naming the failing profile was printed.
C7_RegionIsolated ==
    \A pr \in Pairs(fan_script) :
        ( /\ coord_pc = "end"
          /\ remote[pr] = "Connectivity"
          /\ \A q \in Pairs(fan_script) \ {pr} : remote[q] = "ok" )
        => /\ \A q \in Pairs(fan_script) \ {pr} :
                 Row(q[1], q[2]) \in Range(report)
           /\ \E l \in logs :
                 l.profile /\ TaskList(fan_script)[l.task].profile = pr[1]

C10_WriterAfterAllTasks ==
    /\ coord_pc \in {"write", "end"} => \A t \in TaskIds : IsDone(t)
    /\ coord_pc = "end" => report = results

C10_Witness ==
    /\ coord_pc = "end"
    /\ written
    /\ report # <<>>
    /\ \E t \in TaskIds : TaskFails(t)

\* C11: in LB-Targets.py a delay separates consecutive dispatches: when task
\* i+1 has been submitted to the pool, at least i calls of
\* add_random_delay() have been made.
C11_DelayBetweenDispatch ==
    fan_script = "LBTargets" =>
        \A t \in TaskIds :
            (t > 1 /\ tstate[t] # "unsubmitted") => delays >= t - 1

\* C21: LB-Targets.py delays only while a task result is still to be
\* collected, and has made exactly n-1 delays when the loop over the n
\* futures is over: no delay follows the final result.
C21_DelayOnlyBeforeNext ==
    fan_script = "LBTargets" =>
        /\ coord_pc = "delay" => collected # TaskIds
        /\ coord_pc \in {"write", "end"} => delays = nprofiles - 1

\* A task that occupies or has occupied a worker thread.
Started(ts, t) == ts[t] \notin {"unsubmitted", "queued"}

\* C12: the number of tasks executing at once never exceeds max_workers of
\* the script; a submitted work item waits in the queue until a worker
\* takes it, which happens only while fewer than max_workers tasks execute,
\* and no task submitted later overtakes it; a task that was started is
\* never started again (it does not go back to the queue and a finished
\* future stays finished).
C12_BoundedConcurrency ==
    /\ [](Cardinality(Running) <= MaxWorkers(fan_script))
    /\ [](\A t \in TaskIds :
             tstate[t] = "queued" => \A u \in TaskIds : u > t => ~Started(tstate, u))
    /\ [][\A t \in TaskIds :
             (tstate[t] = "queued" /\ tstate'[t] # "queued")
               => /\ tstate'[t] = "running"
                  /\ Cardinality(Running) < MaxWorkers(fan_script)]_vars
    /\ [][\A t \in TaskIds :
             /\ Started(tstate, t) => Started(tstate', t)
             /\ IsDone(t) => tstate'[t] = tstate[t]
             /\ (tstate[t] # "running" /\ tstate'[t] = "running")
                  => tstate[t] = "queued"]_vars

C12_Witness ==
    /\ fan_script = "IdleRDS"
    /\ Cardinality(Running) = RDSMaxWorkers
    /\ \E t \in TaskIds : tstate[t] = "queued"
    /\ \E t \in TaskIds : IsDone(t)

\* The rows of task t lie in q from position i on, in the order in which
\* the task produced them.
BlockAt(q, t, i) ==
    /\ i + Len(TaskRun(t).rows) - 1 <= Len(q)
    /\ SubSeq(q, i, i + Len(TaskRun(t).rows) - 1) = TaskRun(t).rows

\* The positions of q that hold rows of task t.
PositionsOf(q, t) == {i \in 1..Len(q) : Covers(t, q[i])}

\* C13 as stated, for the task that completes first: its rows precede the
\* rows of every task that completes later, so they open the report.
C13_CompletionOrder ==
    (coord_pc = "end" /\ first_done # 0 /\ ~TaskFails(first_done)
       /\ TaskRun(first_done).rows # <<>>)
    => BlockAt(report, first_done, 1)

\* C13 amended: the rows of one task are contiguous and in the order in
\* which the task produced them; in Find-EKS.py and Idle-RDS.py the blocks
\* follow the order in which as_completed yields the futures, which is the
\* completion order only for the futures that become done after
\* as_completed was called: once the futures that were already done then
\* have been handled, the rows appended next are those of the future that
\* became done earliest among the remaining ones.
C13_YieldOrder ==
    /\ [](\A t \in TaskIds :
             PositionsOf(results, t) # {} =>
                /\ Cardinality(PositionsOf(results, t)) = Len(TaskRun(t).rows)
                /\ \E i \in PositionsOf(results, t) : BlockAt(results, t, i))
    /\ [][(results' # results /\ ~TaskStoresItself(fan_script)
             /\ yield_first \subseteq collected)
          => /\ finished_q # <<>>
             /\ results' = results \o TaskRun(Head(finished_q)).rows]_vars

C13_Witness ==
    /\ coord_pc = "end"
    /\ first_done # 0
    /\ TaskRun(first_done).rows # <<>>
    /\ BlockAt(report, first_done, 1 + Len(report) - Len(TaskRun(first_done).rows))
    /\ \E u \in TaskIds : u # first_done /\ BlockAt(report, u, 1)
                             /\ TaskRun(u).rows # <<>>
    /\ \E u \in TaskIds : u \notin yield_first /\ PositionsOf(report, u) # {}

\* The fetch of task t runs into a call that is rate-limited every time:
\* the first pair of the task that does not succeed is such a pair.
HitsThrottle(t) ==
    LET regs == RegionsOf(fan_script)
        p    == TaskList(fan_script)[t].profile
    IN  \E i \in 1..Len(regs) :
           /\ remote[<<p, regs[i]>>] = "Throttled"
           /\ \A j \in 1..(i - 1) : remote[<<p, regs[j]>>] = "ok"

\* C14: when the run is over, a task in which backoff_retry gave up has
\* finished, its error was printed by the task or by the coordinator, and
\* it contributed no row; every task that did not fail has its rows in the
\* report, and a report with rows was written.
C14_ExhaustionNotFatal ==
    (coord_pc = "end" /\ \E t \in TaskIds : HitsThrottle(t)) =>
      /\ \A t \in TaskIds :
            HitsThrottle(t) => /\ IsDone(t)
                               /\ \E l \in logs : l.task = t
                               /\ PositionsOf(report, t) = {}
      /\ \A u \in TaskIds :
            ~TaskFails(u) => /\ IsDone(u)
                             /\ Range(TaskRun(u).rows) \subseteq Range(report)
      /\ report # <<>> => written

C14_Witness ==
    /\ coord_pc = "end"
    /\ fan_script = "LBTargets"
    /\ written
    /\ \E t, u \in TaskIds :
          /\ HitsThrottle(t)
          /\ ErrorOf(fan_script, remote[<<t, RegionsOf(fan_script)[1]>>]) = "MaxRetries"
          /\ \E l \in logs : l.task = t /\ l.by = "task"
          /\ TaskRun(u).rows # <<>>
          /\ Range(TaskRun(u).rows) \subseteq Range(report)

\* A step of the worker thread that runs task t.
TaskStep(t) ==
    PrintError(t) \/ RunTask(t) \/ LBWork(t) \/ LBStore(t) \/ LBReturn(t)

\* C19: a task that occupies a worker thread can always take its next
\* step, whatever the other tasks and the coordinator do; as long as the
\* report is not written some thread can take a step; and every run ends
\* with every task returned or raised and the report writer called.
C19_FanOutFinishes ==
    /\ [](\A t \in TaskIds : t \in Running => ENABLED TaskStep(t))
    /\ [](coord_pc # "end" => ENABLED NextFan)
    /\ <>(coord_pc = "end" /\ \A t \in TaskIds : IsDone(t))

C19_Witness ==
    /\ coord_pc = "end"
    /\ Cardinality(TaskIds) > MaxWorkers(fan_script)
    /\ \E t \in TaskIds : TaskFails(t)
    /\ \E t \in TaskIds : ~TaskFails(t) /\ t \notin yield_first
    /\ \A t \in TaskIds : IsDone(t)

(***************************************************************************)
(* Properties of concurrent calls of backoff_retry                         *)
(***************************************************************************)

\* p is a prefix of q.
IsPrefix(p, q) == Len(p) <= Len(q) /\ SubSeq(q, 1, Len(p)) = p

\* What call i does when it runs alone.
Alone(i) ==
    backoff_retry(cc_copy, cc[i].func, cc[i].retries, cc[i].initial_delay)

\* C15: under every interleaving of two calls, each call's sleeps so far
\* are the beginning of the sleeps it makes when it runs alone, its current
\* delay is its own initial delay doubled once per sleep it made, it never
\* invokes its callable more often than alone, and it ends with the same
\* outcome, the same number of invocations and the same sleeps as alone.
C15_CallsIndependent ==
    \A i \in Invocations :
        /\ IsPrefix(cc[i].sleeps, Alone(i).sleeps)
        /\ cc[i].invocations <= Alone(i).invocations
        /\ cc[i].delay = cc[i].initial_delay * Pow2(Len(cc[i].sleeps))
        /\ cc[i].attempt = Len(cc[i].sleeps)
        /\ cc[i].pc = "done" =>
              /\ cc[i].result = Alone(i).result
              /\ cc[i].invocations = Alone(i).invocations
              /\ cc[i].sleeps = Alone(i).sleeps

C15_Witness ==
    /\ cc_copy = "LBTargets"
    /\ cc["A"].pc = "sleep"
    /\ cc["A"].sleeps # <<>>
    /\ cc["B"].pc = "done"
    /\ cc["B"].result = "value"
    /\ Len(cc["B"].sleeps) = 1

(***************************************************************************)
(* Properties of the worksheet names                                       *)
(***************************************************************************)

\* C16: the names passed to add_worksheet are pairwise distinct, every
\* partition that reaches the naming code gets its worksheet (add_worksheet
\* does not raise), and a partition whose sanitized name was already in use
\* got that name's beginning followed by "_" and a number.
C16_SheetNamesDeduplicated ==
    /\ \A i, j \in 1..Len(sh_added) : i # j => sh_added[i] # sh_added[j]
    /\ sh_pc # "aborted"
    /\ sh_sheets = sh_added
    /\ worksheet_names = Range(sh_added)

\* C17: every name passed to add_worksheet has at most 31 characters and
\* contains neither "/" nor a backslash.
C17_SheetNamesValid ==
    \A i \in 1..Len(sh_added) :
        /\ Len(sh_added[i]) <= SheetMaxLen
        /\ \A k \in 1..Len(sh_added[i]) : sh_added[i][k] \notin {"/", "\\"}

\* The profile of partition i.
PartitionProfile(i) ==
    sh_profiles[((i - 1) \div Len(SeqRegionsOf(sh_script))) + 1]

\* q contains sub as a substring.
Contains(q, sub) ==
    \E k \in 1..(Len(q) - Len(sub) + 1) : SubSeq(q, k, k + Len(sub) - 1) = sub

\* C23: for every partition the loop has passed, the sanitized worksheet
\* name does not contain "_account" when the profile name ends in it (nor
\* "_Account" in RDS-Storage.py), never ends in "_account", and is left
\* unchanged by a second application of sanitize_worksheet_name.
C23_AccountSuffixStripped ==
    \A i \in 1..NumPartitions :
        i < sh_next =>
            LET prof == PartitionProfile(i)
                name == sanitize_worksheet_name(sh_script, PartitionKey(i))
            IN  /\ EndsWith(prof, Chars_account) => ~Contains(name, Chars_account)
                /\ (sh_script = "RDSStorage" /\ EndsWith(prof, Chars_Account))
                      => ~Contains(name, Chars_Account)
                /\ ~EndsWith(name, Chars_account)
                /\ sanitize_worksheet_name(sh_script, name) = name

(***************************************************************************)
(* Properties of the tag columns                                           *)
(***************************************************************************)

\* Position of a key in Python's string order.
Rank(k) == CHOOSE j \in 1..Len(KeyOrder) : KeyOrder[j] = k

\* C18: once the header is written it is the fixed columns followed by
\* every tag key of every row, each once, in ascending order; every written
\* row has one cell per header column, and its cell in a tag column is the
\* row's own value for that key if the row has the key and the filler if
\* not.
C18_DynamicColumns ==
    dc_pc \in {"rows", "closed"} =>
      LET nb == Len(BaseColumns(dc_script)) IN
      /\ SubSeq(dc_header, 1, nb) = BaseColumns(dc_script)
      /\ {dc_header[j] : j \in (nb + 1)..Len(dc_header)} = AllTagKeys(dc_rows)
      /\ \A j, k \in (nb + 1)..Len(dc_header) :
            j < k => Rank(dc_header[j]) < Rank(dc_header[k])
      /\ dc_pc = "closed" => Len(dc_lines) = Len(dc_rows)
      /\ \A r \in 1..Len(dc_lines) :
            /\ Len(dc_lines[r]) = Len(dc_header)
            /\ \A j \in (nb + 1)..Len(dc_header) :
                  dc_lines[r][j] = IF dc_header[j] \in dc_rows[r]
                                     THEN TagCell(r, dc_header[j])
                                     ELSE Sentinel(dc_script)

\* Rows with key sets {a, b} and {a, c} were written under tag columns
\* a, b, c.
C18_Witness ==
    /\ dc_pc = "closed"
    /\ dc_rows = <<{"a", "b"}, {"a", "c"}>>
    /\ SubSeq(dc_header, Len(BaseColumns(dc_script)) + 1, Len(dc_header))
          = <<"a", "b", "c">>
    /\ dc_lines[1][Len(dc_header)] = Sentinel(dc_script)
    /\ dc_lines[2][Len(dc_header)] = TagCell(2, "c")

(***************************************************************************)
(* Properties of the sequential scripts                                    *)
(***************************************************************************)

\* C8: no error raised while a profile or (profile, region) pair is
\* processed leaves main; once the report is written every failing pair has
\* its error line and was skipped, and every other pair has its rows.
C8_ErrorsSkipped ==
    /\ seq_pc # "aborted"
    /\ seq_pc = "closed" =>
         \A i \in 1..Len(SeqPairs(seq_script)) :
            LET pr == SeqPairs(seq_script)[i] IN
            IF seq_remote[i] = "ok"
              THEN Row(pr[1], pr[2]) \in Range(seq_rows)
              ELSE pr \in seq_logs /\ Row(pr[1], pr[2]) \notin Range(seq_rows)

\* C25: in API-Tags.py the written header names no column twice, and in
\* every written row the cells under id, name, description, created_date
\* and resource_arn are the API's own values.
C25_BaseColumnsIntact ==
    (dc_script = "APITags" /\ dc_pc # "header") =>
        /\ \A i, j \in 1..Len(dc_header) : i # j => dc_header[i] # dc_header[j]
        /\ \A r \in 1..Len(dc_lines) :
              \A j \in 1..Len(BaseColumns("APITags")) :
                  dc_lines[r][j] = BaseCell(r, BaseColumns("APITags")[j])

(***************************************************************************)
(* Properties of the idleness test                                         *)
(***************************************************************************)

\* Every metric was retrieved and every datapoint's Average is below the
\* metric's threshold.
AllBelow(resp) ==
    \A i \in 1..Len(Metrics) :
        /\ resp[i].ok
        /\ \A k \in 1..Len(resp[i].datapoints) :
              resp[i].datapoints[k] < Threshold(i)

\* C22: get_rds_metrics returns True, and the instance is reported idle,
\* exactly when every metric of METRIC_THRESHOLDS was retrieved and all its
\* datapoints are below the threshold.
C22_IdleIffAllBelow ==
    (rm_pc = "done" /\ rm_role # "False") =>
        /\ rm_idle <=> AllBelow(rm_resp)
        /\ idle_instances # <<>> <=> AllBelow(rm_resp)

(***************************************************************************)
(* Properties of the polling loop                                          *)
(***************************************************************************)

\* C24: once the job of role r is COMPLETED or FAILED the loop over the
\* roles eventually moves past r, and the polling loop goes to its sleep
\* only while the job is in progress.
C24_PollingTerminates ==
    /\ \A r \in 1..MaxRoles :
          (iam_i = r /\ iam_job \in JobFates) ~> (iam_i > r)
    /\ [][(iam_pc = "poll" /\ iam_pc' = "sleep") => iam_job = "IN_PROGRESS"]_vars

=============================================================================
